---- MODULE Spec2Model ----
(***************************************************************************)
(* A model of ppdet/modeling/backbones/mixunet.py (the MixUnet backbone).  *)
(*                                                                         *)
(* Tensors are modelled as a shape plus row-major data, so that reshape    *)
(* and transpose move elements exactly as the framework does.  Layers that *)
(* compute floating-point values (Linear, Conv2D, norms, softmax) are      *)
(* modelled by what they do to the shape of their input, and by which      *)
(* input positions each output position is computed from.                  *)
(***************************************************************************)
EXTENDS Integers, Sequences, FiniteSets, TLC

(***************************************************************************)
(* Bounds of the model.                                                    *)
(***************************************************************************)
MaxB == 2
MaxC == 2
MaxH == 4
MaxWin == 3
MaxHeads == 2
MaxBW == 4
MaxExpandDim == 4
MaxLayers == 4
MaxDepth == 2
MaxCalls == 2

\* ConvEmbed: the largest image side and the largest patch size
MaxSide == 16

MaxPatch == 8

\* MixingBlock: the largest shift_size
MaxShift == 1

\* The channel widths and depth-wise kernel sizes a MixingAttention is built
\* with: two even widths and an odd one (16 is the least for which every
\* sub-layer of MixingAttention has a channel), the default kernel 3 (line
\* 809) and an even one.
Dims == {16, 17, 32}
KernelSizes == {2, 3}

(***************************************************************************)
(* Tensors: shape, row-major data, and the error a failed operation raised *)
(* ("" when none).  An operation applied to a failed tensor stays failed,  *)
(* as an exception propagates through the rest of a Python function.       *)
(***************************************************************************)
Tensor(shape, data) == [err |-> "", shape |-> shape, data |-> data]

Raise(msg) == [err |-> msg, shape |-> <<>>, data |-> <<>>]

Ok(t) == t.err = ""

\* None, where a tensor is expected
None == Raise("None")

RECURSIVE Prod(_)
Prod(s) == IF s = <<>> THEN 1 ELSE Head(s) * Prod(Tail(s))

RECURSIVE SumSeq(_)
SumSeq(s) == IF s = <<>> THEN 0 ELSE Head(s) + SumSeq(Tail(s))

\* Row-major stride of axis k (1-based) in a tensor of the given shape.
Stride(shape, k) == Prod(SubSeq(shape, k + 1, Len(shape)))

\* Multi-index (0-based entries) of the flat 0-based offset i.
Unravel(i, shape) ==
    [k \in 1..Len(shape) |-> (i \div Stride(shape, k)) % shape[k]]

\* Flat 0-based offset of a multi-index.
Ravel(idx, shape) ==
    SumSeq([k \in 1..Len(shape) |-> idx[k] * Stride(shape, k)])

\* paddle.arange(n) reshaped: a tensor whose elements are 1..Prod(shape),
\* all different, so that an element's place identifies it.
Arange(shape) == Tensor(shape, [i \in 1..Prod(shape) |-> i])

\* The shape a reshape asks for.  A single -1 is resolved from the number
\* of elements; a 0 copies the input's dimension at the same position
\* (paddle.reshape), and is an error where the input has no such axis.
ZeroOutOfRange(old, shape) ==
    \E k \in 1..Len(shape) : shape[k] = 0 /\ k > Len(old)

ResolveShape(old, n, shape) ==
    LET copied == [k \in 1..Len(shape) |->
                      IF shape[k] = 0 /\ k <= Len(old) THEN old[k]
                      ELSE shape[k]]
        known == Prod([k \in 1..Len(shape) |->
                          IF copied[k] = -1 THEN 1 ELSE copied[k]])
    IN  [k \in 1..Len(shape) |->
            IF copied[k] = -1
            THEN (IF known = 0 THEN 0 ELSE n \div known)
            ELSE copied[k]]

\* Tensor.reshape: the data is kept in row-major order; the element counts
\* must agree.
Reshape(t, shape) ==
    IF ~Ok(t) THEN t
    ELSE IF ZeroOutOfRange(t.shape, shape) THEN Raise("ValueError: reshape")
    ELSE LET s == ResolveShape(t.shape, Prod(t.shape), shape)
         IN  IF Prod(s) = Prod(t.shape)
             THEN Tensor(s, t.data)
             ELSE Raise("ValueError: reshape")

\* Tensor.transpose(perm): axis k of the result is axis perm[k] of the
\* input (perm holds 0-based axes, as in the source).  The element at
\* multi-index n of the result is the input's element whose index along
\* axis perm[k] is n[k].
Transpose(t, perm) ==
    IF ~Ok(t) THEN t
    ELSE LET old == t.shape
             r == Len(perm)
             new == [k \in 1..r |-> old[perm[k] + 1]]
             newStride == [k \in 1..r |-> Stride(new, k)]
             oldStride == [k \in 1..r |-> Stride(old, perm[k] + 1)]
             src(i) == SumSeq([k \in 1..r |->
                          ((i \div newStride[k]) % new[k]) * oldStride[k]])
         IN  Tensor(new, [i \in 1..Len(t.data) |-> t.data[src(i - 1) + 1]])

(***************************************************************************)
(* Layers.  A tensor of floating-point activations is carried with empty   *)
(* data: only its shape is modelled.  Each layer checks what the framework *)
(* checks of its input's shape and gives the shape of its output.          *)
(***************************************************************************)
Abstract(shape) == Tensor(shape, <<>>)

LastDim(t) == IF Ok(t) /\ t.shape # <<>> THEN t.shape[Len(t.shape)] ELSE 0

SetLast(shape, d) == [k \in 1..Len(shape) |-> IF k = Len(shape) THEN d ELSE shape[k]]

\* nn.Linear(in_features, out_features) applied to x.  Where the elements
\* of x are sets of sources, output channel ch of a row is a new value
\* computed from every channel of that row: it is stood for by its channel
\* number and the row's sources.
Linear(x, in_features, out_features) ==
    IF ~Ok(x) THEN x
    ELSE IF LastDim(x) # in_features THEN Raise("ValueError: Linear")
    ELSE LET out == SetLast(x.shape, out_features)
             row(i) == (i - 1) \div out_features
         IN  IF x.data = <<>> THEN Abstract(out)
             ELSE Tensor(out, [i \in 1..Prod(out) |->
                      [src |-> UNION { x.data[row(i) * in_features + c] :
                                         c \in 1..in_features },
                       ch |-> (i - 1) % out_features]])

\* nn.LayerNorm(normalized_shape) applied to x: each element is rescaled
\* with the statistics of its own row, and stays in its place.
LayerNorm(x, normalized_shape) ==
    IF ~Ok(x) THEN x
    ELSE IF LastDim(x) # normalized_shape THEN Raise("ValueError: LayerNorm")
    ELSE Tensor(x.shape, x.data)

\* The sources of the elements of channel c (0-based, axis 1) of x, over
\* the batch and the grid: what the batch statistics of the channel are
\* computed from
ChannelSources(x, c) ==
    UNION {x.data[j] : j \in {k \in 1..Len(x.data) :
                                 Unravel(k - 1, x.shape)[2] = c}}

\* nn.BatchNorm(num_channels) applied to x of shape (B, C, H, W) by a layer
\* whose training flag is as given.  In training mode, the mode a layer is
\* in after construction, each element is normalised with the mean and
\* variance of its channel over the batch, so it has the sources of every
\* element of its channel; in evaluation mode the stored statistics are
\* used and an element's sources are kept.
BatchNorm(x, num_channels, training) ==
    IF ~Ok(x) THEN x
    ELSE IF Len(x.shape) < 2 \/ x.shape[2] # num_channels
         THEN Raise("ValueError: BatchNorm")
    ELSE IF training /\ x.data # <<>>
         THEN Tensor(x.shape, [i \in 1..Len(x.data) |->
                        ChannelSources(x, Unravel(i - 1, x.shape)[2])])
    ELSE Tensor(x.shape, x.data)

\* The running statistics of the layer after that call: running[c] is the
\* set of sources folded into the stored mean and variance of channel
\* c - 1.  They are updated in training mode only.
BatchNorm_running(running, x, num_channels, training) ==
    IF training /\ Ok(BatchNorm(x, num_channels, training))
    THEN [c \in 1..num_channels |->
             running[c] \union (IF x.data = <<>> THEN {}
                                ELSE ChannelSources(x, c - 1))]
    ELSE running

\* to_2tuple of transformer_utils: tuple([x] * 2)
to_2tuple(v) == <<v, v>>

\* Output length of a convolution along one axis.
ConvOut(n, kernel_size, stride, padding) ==
    ((n + 2 * padding - kernel_size) \div stride) + 1

\* nn.Conv2D(in_channels, out_channels, kernel_size, stride, padding,
\* groups) applied to x of shape (B, C, H, W).  Where the elements of x are
\* sets of sources, output element (b, o, i, j) has the sources of every
\* input element under the kernel placed at (i, j), over the input
\* channels of o's group.
Conv2D(x, in_channels, out_channels, kernel_size, stride, padding, groups) ==
    IF ~Ok(x) THEN x
    ELSE IF \/ Len(x.shape) # 4 \/ x.shape[2] # in_channels
            \/ in_channels % groups # 0 \/ out_channels % groups # 0
            \/ stride < 1 \/ kernel_size < 1
         THEN Raise("ValueError: Conv2D")
    ELSE IF \/ x.shape[3] + 2 * padding < kernel_size
            \/ x.shape[4] + 2 * padding < kernel_size
         THEN Raise("ValueError: Conv2D")
    ELSE LET out == <<x.shape[1], out_channels,
                      ConvOut(x.shape[3], kernel_size, stride, padding),
                      ConvOut(x.shape[4], kernel_size, stride, padding)>>
             cin == in_channels \div groups
             cout == out_channels \div groups
             under(m) ==
                 { Ravel(<<m[1], c, r, q>>, x.shape) + 1 :
                     <<c, r, q>> \in
                       { <<c, r, q>> \in (0..(in_channels - 1))
                                         \X (0..(x.shape[3] - 1))
                                         \X (0..(x.shape[4] - 1)) :
                           /\ c \div cin = m[2] \div cout
                           /\ r - (m[3] * stride - padding)
                                 \in 0..(kernel_size - 1)
                           /\ q - (m[4] * stride - padding)
                                 \in 0..(kernel_size - 1) } }
         IN  IF x.data = <<>> THEN Abstract(out)
             ELSE Tensor(out, [i \in 1..Prod(out) |->
                      UNION { x.data[e] : e \in under(Unravel(i - 1, out)) }])

\* F.adaptive_avg_pool2d(x, output_size=1)
AdaptiveAvgPool1(x) ==
    IF ~Ok(x) THEN x ELSE Abstract(<<x.shape[1], x.shape[2], 1, 1>>)

\* Shapes broadcast when, aligned at the right, each pair of dimensions is
\* equal or has a 1.
PadLeft(shape, n) ==
    [k \in 1..n |-> IF k <= n - Len(shape) THEN 1
                    ELSE shape[k - (n - Len(shape))]]

Broadcast(a, b) ==
    IF ~Ok(a) THEN a
    ELSE IF ~Ok(b) THEN b
    ELSE LET n == IF Len(a.shape) > Len(b.shape)
                  THEN Len(a.shape) ELSE Len(b.shape)
             sa == PadLeft(a.shape, n)
             sb == PadLeft(b.shape, n)
         IN  IF \A k \in 1..n : sa[k] = sb[k] \/ sa[k] = 1 \/ sb[k] = 1
             THEN Abstract([k \in 1..n |->
                               IF sa[k] = 1 THEN sb[k] ELSE sa[k]])
             ELSE Raise("ValueError: broadcast")

\* Batched matrix product (..., n, k) x (..., k, m) of tensors with the
\* same leading dimensions.
MatMul(a, b) ==
    IF ~Ok(a) THEN a
    ELSE IF ~Ok(b) THEN b
    ELSE LET ra == Len(a.shape)
             rb == Len(b.shape)
         IN  IF \/ ra < 2 \/ ra # rb
                \/ SubSeq(a.shape, 1, ra - 2) # SubSeq(b.shape, 1, rb - 2)
                \/ a.shape[ra] # b.shape[rb - 1]
             THEN Raise("ValueError: mm")
             ELSE Abstract(SetLast(a.shape, b.shape[rb]))

\* paddle.concat([a, b], axis=-1)
ConcatLast(a, b) ==
    IF ~Ok(a) THEN a
    ELSE IF ~Ok(b) THEN b
    ELSE IF \/ Len(a.shape) # Len(b.shape)
            \/ SubSeq(a.shape, 1, Len(a.shape) - 1)
                  # SubSeq(b.shape, 1, Len(b.shape) - 1)
         THEN Raise("ValueError: concat")
    ELSE Abstract(SetLast(a.shape, LastDim(a) + LastDim(b)))

\* t[i] of a tensor whose values are not modelled
Index0(t) == IF ~Ok(t) THEN t ELSE Abstract(Tail(t.shape))

\* t.unsqueeze(0)
Unsqueeze0(t) == IF ~Ok(t) THEN t ELSE Tensor(<<1>> \o t.shape, t.data)

(***************************************************************************)
(* window_partition2 / window_reverse2                                     *)
(***************************************************************************)
window_partition2(x, window_size) ==
    IF ~Ok(x) THEN x ELSE
    LET B == x.shape[1]
        C == x.shape[2]
        H == x.shape[3]
        W == x.shape[4]
        r == Reshape(x, <<B, C, H \div window_size[1], window_size[1],
                          W \div window_size[2], window_size[2]>>)
    IN  Reshape(Transpose(r, <<0, 2, 4, 3, 5, 1>>),
                <<-1, window_size[1] * window_size[2], C>>)

window_reverse2_NoInterleave(windows, window_size, H, W, C) ==
    LET r == Reshape(windows, <<-1, H \div window_size[1],
                                W \div window_size[2],
                                window_size[1], window_size[2], C>>)
    IN  Reshape(Transpose(r, <<0, 5, 1, 2, 3, 4>>), <<-1, C, H, W>>)

window_reverse2(windows, window_size, H, W, C) ==
    LET r == Reshape(windows, <<-1, H \div window_size[1],
                                W \div window_size[2],
                                window_size[1], window_size[2], C>>)
    IN  Reshape(Transpose(r, <<0, 5, 1, 3, 2, 4>>), <<-1, C, H, W>>)

(***************************************************************************)
(* MixingAttention: the relative position index (lines 107-120, 165-185)   *)
(* and the bias lookup of forward (lines 226-235).                         *)
(***************************************************************************)
\* paddle.stack(paddle.meshgrid([arange(Wh), arange(Ww)])): (2, Wh, Ww),
\* plane 0 holds the row of each position, plane 1 its column.
MeshgridCoords(Wh, Ww) ==
    Tensor(<<2, Wh, Ww>>,
           [i \in 1..(2 * Wh * Ww) |->
               LET m == Unravel(i - 1, <<2, Wh, Ww>>)
               IN  IF m[1] = 0 THEN m[2] ELSE m[3]])

\* a.unsqueeze(2) - a.unsqueeze(1) for a of shape (2, N): (2, N, N) with
\* entry (c, p, q) = a[c, p] - a[c, q].
PairwiseDifference(a) ==
    LET N == a.shape[2]
    IN  Tensor(<<2, N, N>>,
               [i \in 1..(2 * N * N) |->
                   LET m == Unravel(i - 1, <<2, N, N>>)
                   IN  a.data[Ravel(<<m[1], m[2]>>, a.shape) + 1]
                       - a.data[Ravel(<<m[1], m[3]>>, a.shape) + 1]])

\* t[:, :, k] += v
AddAtLast(t, k, v) ==
    LET d == t.shape[Len(t.shape)]
    IN  Tensor(t.shape, [i \in 1..Len(t.data) |->
                   IF (i - 1) % d = k THEN t.data[i] + v ELSE t.data[i]])

\* t[:, :, k] *= v
MulAtLast(t, k, v) ==
    LET d == t.shape[Len(t.shape)]
    IN  Tensor(t.shape, [i \in 1..Len(t.data) |->
                   IF (i - 1) % d = k THEN t.data[i] * v ELSE t.data[i]])

\* t.sum(-1)
SumLast(t) ==
    LET d == t.shape[Len(t.shape)]
        s == SubSeq(t.shape, 1, Len(t.shape) - 1)
    IN  Tensor(s, [i \in 1..Prod(s) |->
                   SumSeq([j \in 1..d |-> t.data[(i - 1) * d + j]])])

\* _get_rel_pos without the scaling of the row offset by 2*Ww - 1
get_rel_pos_NoRowScale(window_size) ==
    LET coords == MeshgridCoords(window_size[1], window_size[2])
        coords_flatten == Reshape(coords, <<2, -1>>)
        relative_coords ==
            Transpose(PairwiseDifference(coords_flatten), <<1, 2, 0>>)
        shifted0 == AddAtLast(relative_coords, 0, window_size[1] - 1)
    IN  AddAtLast(shifted0, 1, window_size[2] - 1)

get_rel_pos_NoColumnShift(window_size) ==
    LET coords == MeshgridCoords(window_size[1], window_size[2])
        coords_flatten == Reshape(coords, <<2, -1>>)
        relative_coords ==
            Transpose(PairwiseDifference(coords_flatten), <<1, 2, 0>>)
        shifted == AddAtLast(relative_coords, 0, window_size[1] - 1)
    IN  MulAtLast(shifted, 0, 2 * window_size[2] - 1)

\* MixingAttention._get_rel_pos
get_rel_pos(window_size) ==
    LET coords == MeshgridCoords(window_size[1], window_size[2])
        coords_flatten == Reshape(coords, <<2, -1>>)
        relative_coords ==
            Transpose(PairwiseDifference(coords_flatten), <<1, 2, 0>>)
        shifted0 == AddAtLast(relative_coords, 0, window_size[1] - 1)
        shifted1 == AddAtLast(shifted0, 1, window_size[2] - 1)
    IN  MulAtLast(shifted1, 0, 2 * window_size[2] - 1)

\* The relative_position_bias_table parameter, shape
\* ((2*Wh-1)*(2*Ww-1), num_heads); the learned scalar of row r and head h
\* is stood for by the pair <<r, h>>.
BiasTable(window_size, num_heads) ==
    LET rows == (2 * window_size[1] - 1) * (2 * window_size[2] - 1)
    IN  Tensor(<<rows, num_heads>>,
               [i \in 1..(rows * num_heads) |->
                   <<(i - 1) \div num_heads, (i - 1) % num_heads>>])

\* paddle.index_select(table, index) along axis 0; an index outside the
\* table's rows is an error.
IndexSelect(table, index) ==
    IF ~Ok(table) THEN table
    ELSE IF ~Ok(index) THEN index
    ELSE LET rows == table.shape[1]
             cols == table.shape[2]
             n == Len(index.data)
         IN  IF \E i \in 1..n : index.data[i] < 0 \/ index.data[i] >= rows
             THEN Raise("IndexError: index_select")
             ELSE Tensor(<<n, cols>>,
                         [i \in 1..(n * cols) |->
                             table.data[index.data[((i - 1) \div cols) + 1]
                                        * cols + ((i - 1) % cols) + 1]])

\* MixingAttention.forward, lines 226-235: the (nH, Wh*Ww, Wh*Ww) bias.
relative_position_bias(table, relative_position_index, window_size) ==
    LET index == Reshape(relative_position_index, <<-1>>)
        selected == IndexSelect(table, index)
        N == window_size[1] * window_size[2]
    IN  Transpose(Reshape(selected, <<N, N, -1>>), <<2, 0, 1>>)

\* MixingAttention.forward with mask = None, lines 197-206: the two
\* projections of x and the convolution branch.  self is the record of the
\* layer's attributes: dim, window_size, dwconv_kernel_size, num_heads,
\* relative_position_bias_table, relative_position_index, and the training
\* flag of nn.Layer.
MixingAttention_branches(self, x, H, W) ==
    LET dim == self.dim
        ksize == self.dwconv_kernel_size
        x_atten == LayerNorm(Linear(x, dim, dim \div 2), dim \div 2)
        x_cnn0 == LayerNorm(Linear(x, dim, dim), dim)
        x_cnn1 == window_reverse2(x_cnn0, self.window_size, H, W,
                                  LastDim(x_cnn0))
        x_cnn2 == BatchNorm(Conv2D(x_cnn1, dim, dim, ksize, 1,
                                   ksize \div 2, dim), dim, self.training)
        channel_interaction ==
            Conv2D(BatchNorm(Conv2D(AdaptiveAvgPool1(x_cnn2),
                                    dim, dim \div 8, 1, 1, 0, 1),
                             dim \div 8, self.training),
                   dim \div 8, dim \div 2, 1, 1, 0, 1)
    IN  [x_atten |-> x_atten,
         channel_interaction |-> channel_interaction,
         x_cnn |-> Conv2D(x_cnn2, dim, dim \div 2, 1, 1, 0, 1)]

\* MixingAttention.forward, lines 209-224: the locals x_cnn2v, v and attn
\* that line 226 finds, from x_atten and the channel interaction
MixingAttention_scores(self, x_atten, channel_interaction) ==
    LET dim == self.dim
        nh == self.num_heads
        B_ == x_atten.shape[1]
        N == x_atten.shape[2]
        C == x_atten.shape[3]
        qkv == Transpose(
                   Reshape(Linear(x_atten, dim \div 2, (dim \div 2) * 3),
                           <<B_, N, 3, nh, C \div nh>>),
                   <<2, 0, 3, 1, 4>>)
        q == Index0(qkv)
        k == Index0(qkv)
        v == Index0(qkv)
        x_cnn2v == Reshape(channel_interaction,
                           <<-1, 1, nh, 1, C \div nh>>)
        v1 == Reshape(v, <<x_cnn2v.shape[1], -1, nh, N, C \div nh>>)
        v2 == Broadcast(v1, x_cnn2v)
    IN  [x_cnn2v |-> x_cnn2v,
         v |-> Reshape(v2, <<-1, nh, N, C \div nh>>),
         attn |-> MatMul(q, Transpose(k, <<0, 1, 3, 2>>))]

\* MixingAttention.forward, lines 226-250: the bias is looked up and added
\* to the scores s.attn, and the values s.v are attended
MixingAttention_attended(self, x_atten, s) ==
    LET bias == relative_position_bias(self.relative_position_bias_table,
                                       self.relative_position_index,
                                       self.window_size)
        attn == Broadcast(s.attn, Unsqueeze0(bias))
    IN  IF ~Ok(s.x_cnn2v) THEN s.x_cnn2v
        ELSE Reshape(Transpose(MatMul(attn, s.v), <<0, 2, 1, 3>>),
                     <<x_atten.shape[1], x_atten.shape[2],
                       x_atten.shape[3]>>)

\* MixingAttention.forward, lines 209-250: the attention branch, from
\* x_atten and the channel interaction to the attended x_atten
MixingAttention_attend(self, x_atten, channel_interaction) ==
    IF ~Ok(x_atten) THEN x_atten
    ELSE IF ~Ok(channel_interaction) THEN channel_interaction
    ELSE MixingAttention_attended(
             self, x_atten,
             MixingAttention_scores(self, x_atten, channel_interaction))

\* The local relative_position_bias after MixingAttention.forward(x, H, W):
\* None when the call raised before line 226 (in lines 197-206 or in lines
\* 209-224), the looked-up bias otherwise
MixingAttention_bias(self, x, H, W) ==
    IF \E b \in {MixingAttention_branches(self, x, H, W)} :
          /\ Ok(b.x_atten) /\ Ok(b.channel_interaction) /\ Ok(b.x_cnn)
          /\ \E s \in {MixingAttention_scores(self, b.x_atten,
                                                b.channel_interaction)} :
                 Ok(s.x_cnn2v) /\ Ok(s.v) /\ Ok(s.attn)
    THEN relative_position_bias(self.relative_position_bias_table,
                                self.relative_position_index,
                                self.window_size)
    ELSE None

\* MixingAttention.forward, lines 253-261: the spatial interaction, from
\* the attended x_atten and the projected x_cnn to the two halves that line
\* 262 concatenates
MixingAttention_spatial(self, x_atten, x_cnn, H, W) ==
    LET dim == self.dim
        C == x_atten.shape[3]
        x_spatial == window_reverse2(x_atten, self.window_size, H, W, C)
        spatial_interaction ==
            Conv2D(BatchNorm(Conv2D(x_spatial, dim \div 2, dim \div 16,
                                    1, 1, 0, 1),
                             dim \div 16, self.training),
                   dim \div 16, 1, 1, 1, 0, 1)
        x_cnn4 == BatchNorm(Broadcast(spatial_interaction, x_cnn),
                            dim \div 2, self.training)
        x_cnn5 == window_partition2(x_cnn4, self.window_size)
        x_atten3 == LayerNorm(x_atten, dim \div 2)
        failed(e) == [x_atten |-> e, x_cnn |-> e]
    IN  IF ~Ok(x_atten) THEN failed(x_atten)
        ELSE IF ~Ok(x_cnn) THEN failed(x_cnn)
        ELSE IF ~Ok(x_cnn5) THEN failed(x_cnn5)
        ELSE IF ~Ok(x_atten3) THEN failed(x_atten3)
        ELSE [x_atten |-> x_atten3, x_cnn |-> x_cnn5]

\* MixingAttention.forward with mask = None, up to the concatenation of
\* line 262: the two halves that are concatenated
MixingAttention_halves(self, x, H, W) ==
    MixingAttention_spatial(
        self,
        MixingAttention_attend(
            self,
            MixingAttention_branches(self, x, H, W).x_atten,
            MixingAttention_branches(self, x, H, W).channel_interaction),
        MixingAttention_branches(self, x, H, W).x_cnn,
        H, W)

\* Lines 262-263: the halves are concatenated and projected
MixingAttention_concat(self, h) ==
    Linear(ConcatLast(h.x_atten, h.x_cnn), self.dim, self.dim)

MixingAttention_forward_NoConcat(self, x, H, W) ==
    LET h == MixingAttention_halves(self, x, H, W)
    IN  Linear(h.x_atten, self.dim \div 2, self.dim \div 2)

\* MixingAttention.forward with mask = None (lines 262-265)
MixingAttention_forward(self, x, H, W) ==
    MixingAttention_concat(self, MixingAttention_halves(self, x, H, W))

(***************************************************************************)
(* MixingBlock (lines 311-449) and what it imports from swin_transformer.  *)
(***************************************************************************)
\* swin_transformer.window_partition: (B, H, W, C) to
\* (num_windows*B, window_size, window_size, C)
window_partition(x, window_size) ==
    IF ~Ok(x) THEN x ELSE
    LET B == x.shape[1]
        H == x.shape[2]
        W == x.shape[3]
        C == x.shape[4]
        r == Reshape(x, <<B, H \div window_size, window_size,
                          W \div window_size, window_size, C>>)
    IN  Reshape(Transpose(r, <<0, 1, 3, 2, 4, 5>>),
                <<-1, window_size, window_size, C>>)

\* swin_transformer.window_reverse: (num_windows*B, window_size,
\* window_size, C) to (B, H, W, C)
window_reverse(windows, window_size, H, W) ==
    IF ~Ok(windows) THEN windows ELSE
    LET C == LastDim(windows)
        r == Reshape(windows, <<-1, H \div window_size, W \div window_size,
                                window_size, window_size, C>>)
    IN  Reshape(Transpose(r, <<0, 1, 3, 2, 4, 5>>), <<-1, H, W, C>>)

\* swin_transformer.Mlp: fc1, activation, fc2
Mlp_forward(x, in_features, hidden_features) ==
    Linear(Linear(x, in_features, hidden_features),
           hidden_features, in_features)

\* F.pad(x, [0, 0, 0, pad_b, 0, pad_r, 0, 0]) on x of shape (B, H, W, C):
\* pad_b rows after the last row, pad_r columns after the last column.
PadBottomRight(x, pad_b, pad_r) ==
    IF ~Ok(x) THEN x
    ELSE Abstract(<<x.shape[1], x.shape[2] + pad_b, x.shape[3] + pad_r,
                    x.shape[4]>>)

\* x[:, :H, :W, :]
Crop(x, H, W) ==
    IF ~Ok(x) THEN x
    ELSE Abstract(<<x.shape[1],
                    IF x.shape[2] < H THEN x.shape[2] ELSE H,
                    IF x.shape[3] < W THEN x.shape[3] ELSE W,
                    x.shape[4]>>)

\* Bottleneck.forward, built as Bottleneck(in_channel=dim, out_channel=dim)
Bottleneck_forward(x, dim, training) ==
    LET out1 == BatchNorm(Conv2D(x, dim, dim, 3, 1, 1, dim), dim, training)
        out2 == Conv2D(out1, dim, dim \div 2, 1, 1, 0, 1)
        out3 == Conv2D(out2, dim \div 2, dim, 1, 1, 0, 1)
        out4 == BatchNorm(Conv2D(out3, dim, dim, 3, 1, 1, dim), dim,
                          training)
    IN  Broadcast(out4, x)

\* The attributes of the MixingAttention a MixingBlock of width dim builds
\* (lines 358-366), its index and table as __init__ computes them.
BlockAttn(dim, num_heads, window_size, dwconv_kernel_size, training) ==
    [dim |-> dim, window_size |-> to_2tuple(window_size),
     training |-> training,
     dwconv_kernel_size |-> dwconv_kernel_size, num_heads |-> num_heads,
     relative_position_bias_table |->
         BiasTable(to_2tuple(window_size), num_heads),
     relative_position_index |->
         SumLast(get_rel_pos(to_2tuple(window_size)))]

\* The padding of lines 398-400 without the outer modulo
PadAmount_AlwaysPads(n, window_size) == window_size - (n % window_size)

\* The padding of lines 398-400.
PadAmount(n, window_size) ==
    (window_size - (n % window_size)) % window_size

\* MixingBlock.forward, lines 402-434: the padded map x (B, Hp, Wp, C) is
\* partitioned into windows, attended, put together again and cropped to
\* (B, H, W, C), then flattened to (B, H*W, C)
MixingBlock_windows(self, x, B, H, W, C) ==
    LET ws == self.window_size
        Hp == x.shape[2]
        Wp == x.shape[3]
        x_windows == Reshape(window_partition(x, ws), <<-1, ws * ws, C>>)
        attn_windows ==
            Reshape(MixingAttention_forward(
                        BlockAttn(self.dim, self.num_heads, ws,
                                  self.dwconv_kernel_size, self.training),
                        x_windows, Hp, Wp),
                    <<-1, ws, ws, C>>)
        shifted_x == window_reverse(attn_windows, ws, Hp, Wp)
        pad_r == Wp - W
        pad_b == Hp - H
    IN  IF ~Ok(x) THEN x
        ELSE IF pad_r > 0 \/ pad_b > 0
             THEN Reshape(Crop(shifted_x, H, W), <<B, H * W, C>>)
        ELSE Reshape(shifted_x, <<B, H * W, C>>)

\* MixingBlock.forward, line 447: x + mlp(norm2(x))
MixingBlock_mlp(self, x) ==
    Broadcast(x, Mlp_forward(LayerNorm(x, self.dim), self.dim,
                             self.dim * self.mlp_ratio))

\* MixingBlock.forward, lines 392-434: from the block's input x and the
\* H, W it read to the output of the windowed attention, as (B, H*W, C)
MixingBlock_attend(self, x, H, W) ==
    LET B == x.shape[1]
        C == x.shape[3]
        ws == self.window_size
        x1 == Transpose(Reshape(LayerNorm(x, self.dim), <<B, H, W, C>>),
                        <<0, 3, 1, 2>>)
        x2 == Transpose(Bottleneck_forward(x1, self.dim, self.training),
                        <<0, 2, 3, 1>>)
        pad_r == PadAmount(W, ws)
        pad_b == PadAmount(H, ws)
    IN  MixingBlock_windows(self, PadBottomRight(x2, pad_b, pad_r),
                            B, H, W, C)

\* MixingBlock.forward, lines 436-447: the residual sums and the MLP
MixingBlock_ffn(self, shortcut, x) ==
    MixingBlock_mlp(self, Broadcast(shortcut, x))

\* MixingBlock.forward(x, None) with self.H, self.W as read at line 388:
\* <<>> stands for None, <<h>> for the integer h.  self holds dim,
\* num_heads, window_size, dwconv_kernel_size, mlp_ratio.
MixingBlock_forward(self, x, selfH, selfW) ==
    IF ~Ok(x) THEN x
    ELSE IF selfH = <<>> \/ selfW = <<>>
         THEN Raise("TypeError: unsupported operand type(s) for *")
    ELSE IF x.shape[2] # selfH[1] * selfW[1]
         THEN Raise("AssertionError: input feature has wrong size")
    ELSE MixingBlock_ffn(self, x,
                         MixingBlock_attend(self, x, selfH[1], selfW[1]))

\* MixingBlock.__init__ without its assertion on shift_size
MixingBlock_init_AnyShift(args) ==
    [err |-> "", dim |-> args.dim, num_heads |-> args.num_heads,
     window_size |-> args.window_size, shift_size |-> args.shift_size,
     dwconv_kernel_size |-> args.dwconv_kernel_size,
     mlp_ratio |-> args.mlp_ratio, H |-> <<>>, W |-> <<>>,
     training |-> TRUE]

\* MixingBlock.__init__ (lines 335-377): the attributes of the block, H and
\* W being None and training as nn.Layer.__init__ sets it, or the assertion
\* of line 355
MixingBlock_init(args) ==
    IF args.shift_size # 0
    THEN [Raise("AssertionError: No shift in MixUnet") EXCEPT !.shape = <<>>]
    ELSE [err |-> "", dim |-> args.dim, num_heads |-> args.num_heads,
          window_size |-> args.window_size, shift_size |-> args.shift_size,
          dwconv_kernel_size |-> args.dwconv_kernel_size,
          mlp_ratio |-> args.mlp_ratio, H |-> <<>>, W |-> <<>>,
     training |-> TRUE]

\* The locals of MixingBlock.forward(x, mask_matrix) when it calls
\* self.attn (lines 387-423): the list handed to F.pad, the padded size,
\* whether the map was rolled, and the mask handed to self.attn
MixingBlock_locals(self, x, mask_matrix) ==
    LET H == self.H[1]
        W == self.W[1]
        pad_l == 0
        pad_t == 0
        pad_r == PadAmount(W, self.window_size)
        pad_b == PadAmount(H, self.window_size)
        padded == PadBottomRight(Abstract(<<x.shape[1], H, W, x.shape[3]>>),
                                 pad_b, pad_r)
    IN  [pad |-> <<0, pad_l, 0, pad_b, 0, pad_r, 0, pad_t>>,
         Hp |-> padded.shape[2], Wp |-> padded.shape[3],
         rolled |-> self.shift_size > 0,
         attn_mask |-> IF self.shift_size > 0 THEN mask_matrix ELSE None,
         cropped |-> (pad_r > 0 \/ pad_b > 0)]

\* MixingAttention.forward lines 238-242: the mask (nW, N, N) is added to
\* attn (B_, num_heads, N, N)
MixingAttention_mask(attn, num_heads, mask) ==
    LET B_ == attn.shape[1]
        N == attn.shape[3]
        nW == mask.shape[1]
        a == Reshape(attn, <<B_ \div nW, nW, num_heads, N, N>>)
        m == Abstract(<<1, mask.shape[1], 1, mask.shape[2], mask.shape[3]>>)
    IN  Reshape(Broadcast(a, m), <<-1, num_heads, N, N>>)

\* MixingBlock.forward(x, mask_matrix) with self.H and self.W as stored in
\* the block.  The roll of lines 405-407 and 432-436 keeps the shape.
MixingBlock_call(self, x, mask_matrix) ==
    LET out == MixingBlock_forward(self, x, self.H, self.W)
        l == MixingBlock_locals(self, x, mask_matrix)
        ws == self.window_size
        B_ == x.shape[1] * (l.Hp \div ws) * (l.Wp \div ws)
    IN  IF ~Ok(out) THEN out
        ELSE IF l.attn_mask = None THEN out
        ELSE LET masked == MixingAttention_mask(
                               Abstract(<<B_, self.num_heads, ws * ws,
                                          ws * ws>>),
                               self.num_heads, l.attn_mask)
             IN  IF ~Ok(masked) THEN masked ELSE out

(***************************************************************************)
(* Focus and ConvMerging (lines 467-515)                                   *)
(***************************************************************************)
\* Number of indices start, start+2, ... below n.
SliceLen(n, start) == IF n <= start THEN 0 ELSE (n - start + 1) \div 2

\* x[..., r0::2, c0::2] of x of shape (B, C, H, W)
Slice2(x, r0, c0) ==
    IF ~Ok(x) THEN x
    ELSE LET out == <<x.shape[1], x.shape[2],
                      SliceLen(x.shape[3], r0), SliceLen(x.shape[4], c0)>>
         IN  Tensor(out,
                    IF x.data = <<>> THEN <<>>
                    ELSE [i \in 1..Prod(out) |->
                            LET m == Unravel(i - 1, out)
                            IN  x.data[Ravel(<<m[1], m[2], 2 * m[3] + r0,
                                               2 * m[4] + c0>>, x.shape) + 1]])

\* paddle.concat(parts, axis=1) of tensors of shape (B, C, H, W)
ConcatAxis1(parts) ==
    IF \E k \in 1..Len(parts) : ~Ok(parts[k])
    THEN parts[CHOOSE k \in 1..Len(parts) :
                  /\ ~Ok(parts[k])
                  /\ \A j \in 1..(k - 1) : Ok(parts[j])]
    ELSE IF \E k \in 2..Len(parts) :
               \/ parts[k].shape[1] # parts[1].shape[1]
               \/ parts[k].shape[3] # parts[1].shape[3]
               \/ parts[k].shape[4] # parts[1].shape[4]
         THEN Raise("ValueError: concat")
    ELSE LET C == parts[1].shape[2]
             out == <<parts[1].shape[1], Len(parts) * C,
                      parts[1].shape[3], parts[1].shape[4]>>
         IN  Tensor(out,
                    IF parts[1].data = <<>> THEN <<>>
                    ELSE [i \in 1..Prod(out) |->
                            LET m == Unravel(i - 1, out)
                                part == parts[(m[2] \div C) + 1]
                            IN  part.data[Ravel(<<m[1], m[2] % C, m[3],
                                                  m[4]>>, part.shape) + 1]])

\* BaseConv.forward: act(conv(x)), padding (kernel_size - 1) // 2; the
\* activation acts on each element by itself.
BaseConv_forward(x, in_channels, out_channels, kernel_size, stride) ==
    Conv2D(x, in_channels, out_channels, kernel_size, stride,
           (kernel_size - 1) \div 2, 1)

Focus_forward_RepeatedPatch(x, in_channels, out_channels) ==
    LET patch_1 == Slice2(x, 0, 0)
        patch_2 == Slice2(x, 1, 0)
        patch_3 == Slice2(x, 0, 1)
        patch_4 == Slice2(x, 1, 0)
    IN  BaseConv_forward(ConcatAxis1(<<patch_1, patch_2, patch_3, patch_4>>),
                         in_channels * 4, out_channels, 1, 1)

\* Focus.forward, with Focus(in_channels, out_channels) built with the
\* defaults ksize = 1, stride = 1
Focus_forward(x, in_channels, out_channels) ==
    LET patch_1 == Slice2(x, 0, 0)
        patch_2 == Slice2(x, 1, 0)
        patch_3 == Slice2(x, 0, 1)
        patch_4 == Slice2(x, 1, 1)
    IN  BaseConv_forward(ConcatAxis1(<<patch_1, patch_2, patch_3, patch_4>>),
                         in_channels * 4, out_channels, 1, 1)

\* Tensor.flatten(2) of a tensor of shape (B, C, H, W)
Flatten2(x) == Reshape(x, <<0, 0, -1>>)

\* ConvMerging.forward up to the reduction: the (B, out_dim, H/2, W/2) map
\* that line 514 flattens.  self holds dim, out_dim and the training flag.
ConvMerging_map(self, x, H, W) ==
    IF ~Ok(x) THEN x
    ELSE IF x.shape[2] # H * W
         THEN Raise("AssertionError: input feature has wrong size")
    ELSE IF ~(H % 2 = 0 /\ W % 2 = 0)
         THEN Raise("AssertionError: x size are not even")
    ELSE LET B == x.shape[1]
             C == x.shape[3]
             x1 == Transpose(Reshape(x, <<B, H, W, C>>), <<0, 3, 1, 2>>)
         IN  Focus_forward(BatchNorm(x1, self.dim, self.training),
                           self.dim, self.out_dim)

\* ConvMerging.forward
ConvMerging_forward(self, x, H, W) ==
    Transpose(Flatten2(ConvMerging_map(self, x, H, W)), <<0, 2, 1>>)

\* The running statistics of self.norm after ConvMerging.forward: line 512
\* updates them when it is reached, in training mode.
ConvMerging_running(self, x, H, W) ==
    IF ~Ok(x) \/ x.shape[2] # H * W \/ ~(H % 2 = 0 /\ W % 2 = 0)
    THEN self.norm_running
    ELSE LET B == x.shape[1]
             C == x.shape[3]
             x1 == Transpose(Reshape(x, <<B, H, W, C>>), <<0, 3, 1, 2>>)
         IN  BatchNorm_running(self.norm_running, x1, self.dim,
                               self.training)

\* A (B, L, C) batch of tokens in which every element of token l carries
\* the set {l}: the tokens it was computed from.
Tokens(B, L, C) ==
    Tensor(<<B, L, C>>, [i \in 1..(B * L * C) |-> {((i - 1) \div C) % L}])

(***************************************************************************)
(* PatchExpand (lines 739-763).  self holds input_resolution and dim; both *)
(* call sites build it with dim_scale = 2, so expand is Linear(dim, 2*dim) *)
(* and norm is norm_layer(dim // 2).                                       *)
(***************************************************************************)
PatchExpand_forward_NoExpand(self, x) ==
    LET H == self.input_resolution[1]
        W == self.input_resolution[2]
    IN  IF ~Ok(x) THEN x
        ELSE IF x.shape[2] # H * W
             THEN Raise("AssertionError: input feature has wrong size")
        ELSE LET B == x.shape[1]
                 C == x.shape[3]
                 x2 == Reshape(x, <<B, H, W, C>>)
                 x3 == Reshape(x2, <<B, 2 * H, 2 * W, C \div 4>>)
             IN  Reshape(x3, <<B, -1, C \div 4>>)

\* PatchExpand.forward without the assertion on the token count
PatchExpand_forward_AnySize(self, x) ==
    LET H == self.input_resolution[1]
        W == self.input_resolution[2]
        x1 == Linear(x, self.dim, 2 * self.dim)
    IN  IF ~Ok(x1) THEN x1
        ELSE LET B == x1.shape[1]
                 C == x1.shape[3]
                 x2 == Reshape(x1, <<B, H, W, C>>)
                 x3 == Reshape(x2, <<B, 2 * H, 2 * W, C \div 4>>)
                 x4 == Reshape(x3, <<B, -1, C \div 4>>)
             IN  LayerNorm(x4, self.dim \div 2)

PatchExpand_forward(self, x) ==
    LET H == self.input_resolution[1]
        W == self.input_resolution[2]
        x1 == Linear(x, self.dim, 2 * self.dim)
    IN  IF ~Ok(x1) THEN x1
        ELSE IF x1.shape[2] # H * W
             THEN Raise("AssertionError: input feature has wrong size")
        ELSE LET B == x1.shape[1]
                 C == x1.shape[3]
                 x2 == Reshape(x1, <<B, H, W, C>>)
                 x3 == Reshape(x2, <<B, 2 * H, 2 * W, C \div 4>>)
                 x4 == Reshape(x3, <<B, -1, C \div 4>>)
             IN  LayerNorm(x4, self.dim \div 2)

(***************************************************************************)
(* ConvEmbed (lines 664-737)                                               *)
(***************************************************************************)
\* ConvEmbed.__init__: img_size and patch_size are integers, which
\* to_2tuple repeats (lines 684-685); norm says whether a norm_layer was
\* passed; training is as nn.Layer.__init__ sets it.
ConvEmbed_init(img_size, patch_size, in_chans, embed_dim, norm) ==
    LET size == to_2tuple(img_size)
        ps == to_2tuple(patch_size)
        patches_resolution == <<size[1] \div ps[1], size[2] \div ps[2]>>
    IN  [img_size |-> size,
         patch_size |-> ps,
         training |-> TRUE,
         patches_resolution |-> patches_resolution,
         num_patches |-> patches_resolution[1] * patches_resolution[2],
         in_chans |-> in_chans,
         embed_dim |-> embed_dim,
         norm |-> norm]

\* F.pad(x, [0, right, 0, bottom]) on x of shape (B, C, H, W)
PadImage(x, right, bottom) ==
    IF ~Ok(x) THEN x
    ELSE Abstract(<<x.shape[1], x.shape[2], x.shape[3] + bottom,
                    x.shape[4] + right>>)

\* ConvEmbed.forward
ConvEmbed_forward(self, x) ==
    LET H == x.shape[3]
        W == x.shape[4]
        ph == self.patch_size[1]
        pw == self.patch_size[2]
        e == self.embed_dim
        x1 == IF W % pw # 0 THEN PadImage(x, pw - (W % pw), 0) ELSE x
        x2 == IF H % ph # 0 THEN PadImage(x1, 0, ph - (H % ph)) ELSE x1
        \* self.stem
        s1 == BatchNorm(Conv2D(x2, self.in_chans, e \div 2, 3, ph \div 2,
                               1, 1), e \div 2, self.training)
        s2 == BatchNorm(Conv2D(s1, e \div 2, e \div 2, 3, 1, 1, 1), e \div 2,
                        self.training)
        s3 == BatchNorm(Conv2D(s2, e \div 2, e \div 2, 3, 1, 1, 1), e \div 2,
                        self.training)
        \* self.proj
        x3 == Conv2D(s3, e \div 2, e, ph \div 2, ph \div 2, 0, 1)
        x4 == Transpose(Flatten2(x3), <<0, 2, 1>>)
    IN  IF ~Ok(x) THEN x
        ELSE IF ~Ok(x3) THEN x3
        ELSE IF ~self.norm
             THEN Raise("UnboundLocalError: local variable 'Wh' referenced before assignment")
        ELSE Reshape(Transpose(LayerNorm(x4, e), <<0, 2, 1>>),
                     <<-1, e, x3.shape[3], x3.shape[4]>>)

(***************************************************************************)
(* MixUnet.__init__ (lines 800-954)                                        *)
(***************************************************************************)
\* A drop-path rate is a fraction num/den of the unit in which
\* drop_path_rate is given.
Rate(num, den) == [num |-> num, den |-> den]

RateLeq(a, b) == a.num * b.den <= b.num * a.den

RateEq(a, b) == a.num * b.den = b.num * a.den

\* np.linspace(0, stop, num).tolist(): num evenly spaced rates from 0 to
\* stop; a single rate is the start, 0.
linspace(stop, num) ==
    [k \in 1..num |-> IF num = 1 THEN Rate(0, 1)
                      ELSE Rate((k - 1) * stop, num - 1)]

\* list[a:b] with 0 <= a <= b
Slice(list, a, b) ==
    SubSeq(list, a + 1, IF b > Len(list) THEN Len(list) ELSE b)

\* sum(depths[:i])
SumTo(depths, i) == SumSeq(Slice(depths, 0, i))

RECURSIVE Pow2(_)
Pow2(n) == IF n = 0 THEN 1 ELSE 2 * Pow2(n - 1)

\* Lines 826-828: an int embed_dim becomes the list of doubling widths.
EmbedDimList(embed_dim, num_layers) ==
    IF embed_dim.kind = "int"
    THEN [i \in 1..num_layers |-> embed_dim.value * Pow2(i - 1)]
    ELSE embed_dim.value

EncoderDropPath_WholeSchedule(dpr, depths, i_layer) ==
    Slice(dpr, 0, SumTo(depths, i_layer + 1))

\* Line 885: the drop_path argument of encoder layer i_layer (0-based)
EncoderDropPath(dpr, depths, i_layer) ==
    Slice(dpr, SumTo(depths, i_layer), SumTo(depths, i_layer + 1))

\* Lines 874-890: the BasicLayer of encoder stage i_layer (0-based); the
\* attributes of its blocks and whether it has a ConvMerging downsample.
BasicLayer_init(args, embed_dim, dpr, i_layer) ==
    LET num_layers == Len(args.depths)
    IN  [dim |-> embed_dim[i_layer + 1],
         depth |-> args.depths[i_layer + 1],
         num_heads |-> args.num_heads[i_layer + 1],
         window_size |-> args.window_size,
         dwconv_kernel_size |-> args.dwconv_kernel_size,
         mlp_ratio |-> args.mlp_ratio,
         drop_path |-> EncoderDropPath(dpr, args.depths, i_layer),
         downsample |-> i_layer < num_layers - 1,
         out_dim |-> IF i_layer < num_layers - 1
                     THEN embed_dim[i_layer + 2] ELSE 0]

\* Lines 898-900: concat_back_dim[i_layer]
ConcatLinear_init(embed_dim, num_layers, i_layer) ==
    LET d == embed_dim[1] * Pow2(num_layers - 1 - i_layer)
    IN  [identity |-> i_layer = 0, in_features |-> 2 * d,
         out_features |-> d]

\* Lines 901-922: layers_up[i_layer], a bare PatchExpand for i_layer = 0
\* and a BasicLayer_up (which always gets an upsample) otherwise.
LayerUp_init(args, embed_dim, dpr, patches_resolution, i_layer) ==
    LET num_layers == Len(args.depths)
        mirrored == num_layers - 1 - i_layer
        scale == Pow2(mirrored)
        blocks == i_layer # 0
    IN  [kind |-> IF blocks THEN "BasicLayer_up" ELSE "PatchExpand",
         dim |-> embed_dim[1] * scale,
         input_resolution |-> <<patches_resolution[1] \div scale,
                                patches_resolution[2] \div scale>>,
         depth |-> IF blocks THEN args.depths[mirrored + 1] ELSE 0,
         num_heads |-> IF blocks THEN args.num_heads[mirrored + 1] ELSE 0,
         window_size |-> args.window_size,
         dwconv_kernel_size |-> 3,
         mlp_ratio |-> args.mlp_ratio,
         drop_path |-> IF blocks
                       THEN Slice(dpr, SumTo(args.depths, mirrored),
                                  SumTo(args.depths, mirrored + 1))
                       ELSE <<>>]

\* MixUnet.out_shape (lines 1060-1067): channels and stride per out index
out_shape(self) ==
    LET out_strides == <<4, 8, 16, 32>>
    IN  [k \in 1..Len(self.out_indices) |->
            [channels |-> self.num_channel[self.out_indices[k] + 1],
             stride |-> out_strides[self.out_indices[k] + 1]]]

(***************************************************************************)
(* State.                                                                  *)
(***************************************************************************)
VARIABLES
    w_pc,        \* windowing round trip: "start", "partitioned", "reversed"
    w_x,         \* the feature map (B, C, H, W) handed to window_partition2
    w_size,      \* the window size (wh, ww)
    w_windows,   \* the result of window_partition2
    w_back,      \* the result of window_reverse2 on w_windows
    a_pc,        \* MixingAttention: "new", "coords", "built", "called"
    a_dim,       \* MixingAttention.dim
    a_window,    \* MixingAttention.window_size (Wh, Ww)
    a_kernel,    \* MixingAttention.dwconv_kernel_size
    a_heads,     \* MixingAttention.num_heads
    a_table,     \* MixingAttention.relative_position_bias_table
    a_coords,    \* the result of _get_rel_pos
    a_index,     \* MixingAttention.relative_position_index
    a_x,         \* forward: the argument x
    a_HW,        \* forward: the arguments H, W
    a_bias,      \* forward: relative_position_bias
    a_halves,    \* forward: the tensors x_atten, x_cnn that are concatenated
    a_out,       \* forward: the returned tensor
    m_pc,        \* ConvMerging: "start", "called"
    m_self,      \* ConvMerging attributes: dim, out_dim, training, norm
    m_x,         \* BasicLayer.forward: x handed to self.downsample
    m_HW,        \* BasicLayer.forward: H, W
    m_map,       \* ConvMerging.forward: the map that is flattened
    m_down,      \* BasicLayer.forward: x_down
    m_WhWw,      \* BasicLayer.forward: Wh, Ww
    e_pc,        \* PatchExpand: "start", "called"
    e_self,      \* PatchExpand attributes: input_resolution, dim
    e_x,         \* PatchExpand.forward: the argument x
    e_out,       \* PatchExpand.forward: the returned tensor
    s_pc,        \* ConvEmbed: "new", "built", "called"
    s_args,      \* the arguments of ConvEmbed.__init__
    s_self,      \* the attributes of the ConvEmbed instance
    s_x,         \* ConvEmbed.forward: the argument x
    s_out,       \* ConvEmbed.forward: the returned map, or its exception
    b_pc,        \* MixingBlock: "new", "built", "raised", "called"
    b_args,      \* the arguments of MixingBlock.__init__
    b_self,      \* the attributes of the MixingBlock instance
    b_x,         \* MixingBlock.forward: the argument x
    b_mask,      \* MixingBlock.forward: the argument mask_matrix
    b_trace,     \* MixingBlock.forward: its locals at the call of self.attn
    b_out,       \* MixingBlock.forward: the returned tokens, or its exception
    n_pc,        \* MixUnet.__init__: "new", "layers", "layers_up", "built"
    n_args,      \* the arguments of MixUnet.__init__
    n_self,      \* the attributes of the MixUnet instance
    n_blk,       \* per MixingBlock of the instance, its attributes H and W
    n_call,      \* per thread, the frame of its running MixUnet.forward
    n_left,      \* per thread, how many calls it has yet to make, on which images
    n_done       \* per thread, the image and outcome of its finished calls

winVars == <<w_pc, w_x, w_size, w_windows, w_back>>

attnVars == <<a_pc, a_dim, a_window, a_kernel, a_heads, a_table, a_coords,
              a_index, a_x, a_HW, a_bias, a_halves, a_out>>

mergeVars == <<m_pc, m_self, m_x, m_HW, m_map, m_down, m_WhWw>>

expandVars == <<e_pc, e_self, e_x, e_out>>

stemVars == <<s_pc, s_args, s_self, s_x, s_out>>

blockVars == <<b_pc, b_args, b_self, b_x, b_mask, b_trace, b_out>>

netVars == <<n_pc, n_args, n_self, n_blk, n_call, n_left, n_done>>

vars == <<winVars, attnVars, mergeVars, expandVars, stemVars, blockVars,
          netVars>>

(***************************************************************************)
(* The windowing round trip: a feature map is partitioned into windows and *)
(* the windows are reversed with the map's own H, W and C, as              *)
(* MixingAttention.forward does.                                           *)
(***************************************************************************)
WinStart ==
    /\ w_pc = "start"
    /\ \E B \in 1..MaxB, C \in 1..MaxC, H \in 1..MaxH, W \in 1..MaxH :
          w_x = Arange(<<B, C, H, W>>)
    /\ w_size \in (1..MaxH) \X (1..MaxH)
    /\ w_windows = None
    /\ w_back = None

WinIdle ==
    /\ w_pc = "idle"
    /\ w_x = None
    /\ w_size = <<1, 1>>
    /\ w_windows = None
    /\ w_back = None

WindowPartition ==
    /\ w_pc = "start"
    /\ w_windows' = window_partition2(w_x, w_size)
    /\ w_pc' = "partitioned"
    /\ UNCHANGED <<w_x, w_size, w_back>>
    /\ UNCHANGED <<attnVars, mergeVars, expandVars, stemVars, blockVars,
                   netVars>>

WindowReverse ==
    /\ w_pc = "partitioned"
    /\ Ok(w_windows)
    /\ w_back' = window_reverse2(w_windows, w_size, w_x.shape[3],
                                 w_x.shape[4], w_x.shape[2])
    /\ w_pc' = "reversed"
    /\ UNCHANGED <<w_x, w_size, w_windows>>
    /\ UNCHANGED <<attnVars, mergeVars, expandVars, stemVars, blockVars,
                   netVars>>

(***************************************************************************)
(* One MixingAttention layer: __init__ creates the bias table and the      *)
(* relative position index, then forward is called on a batch of windows.  *)
(***************************************************************************)
AttnStart ==
    /\ a_pc = "new"
    /\ a_dim \in Dims
    /\ a_window \in (1..MaxWin) \X (1..MaxWin)
    /\ a_kernel \in KernelSizes
    /\ a_heads \in 1..MaxHeads
    /\ a_table = None
    /\ a_coords = None
    /\ a_index = None
    /\ a_x = None
    /\ a_HW = <<0, 0>>
    /\ a_bias = None
    /\ a_halves = [x_atten |-> None, x_cnn |-> None]
    /\ a_out = None

AttnIdle ==
    /\ a_pc = "idle"
    /\ a_dim = 0
    /\ a_window = <<1, 1>>
    /\ a_kernel = 0
    /\ a_heads = 1
    /\ a_table = None
    /\ a_coords = None
    /\ a_index = None
    /\ a_x = None
    /\ a_HW = <<0, 0>>
    /\ a_bias = None
    /\ a_halves = [x_atten |-> None, x_cnn |-> None]
    /\ a_out = None

\* The layer's attributes, as forward reads them from self; training is
\* as nn.Layer.__init__ sets it.
AttnSelf ==
    [dim |-> a_dim, window_size |-> a_window,
     dwconv_kernel_size |-> a_kernel, num_heads |-> a_heads,
     relative_position_bias_table |-> a_table,
     relative_position_index |-> a_index,
     training |-> TRUE]

\* __init__, lines 108-117
AttnInitTable ==
    /\ a_pc = "new"
    /\ a_table' = BiasTable(a_window, a_heads)
    /\ a_coords' = get_rel_pos(a_window)
    /\ a_pc' = "coords"
    /\ UNCHANGED <<a_dim, a_window, a_kernel, a_heads, a_index, a_x, a_HW,
                   a_bias, a_halves, a_out>>
    /\ UNCHANGED <<winVars, mergeVars, expandVars, stemVars, blockVars,
                   netVars>>

\* __init__, lines 118-120
AttnInitIndex ==
    /\ a_pc = "coords"
    /\ a_index' = SumLast(a_coords)
    /\ a_pc' = "built"
    /\ UNCHANGED <<a_dim, a_window, a_kernel, a_heads, a_table, a_coords,
                   a_x, a_HW, a_bias, a_halves, a_out>>
    /\ UNCHANGED <<winVars, mergeVars, expandVars, stemVars, blockVars,
                   netVars>>

\* forward(x, H, W) on x of shape (B_, Wh*Ww, dim)
AttnForward ==
    /\ a_pc = "built"
    /\ \E B_ \in 1..MaxBW, H \in 1..MaxH, W \in 1..MaxH :
          /\ a_x' = Abstract(<<B_, a_window[1] * a_window[2], a_dim>>)
          /\ a_HW' = <<H, W>>
          /\ a_halves' = MixingAttention_halves(AttnSelf, a_x', H, W)
          /\ a_out' = MixingAttention_forward(AttnSelf, a_x', H, W)
          /\ a_bias' = MixingAttention_bias(AttnSelf, a_x', H, W)
    /\ a_pc' = "called"
    /\ UNCHANGED <<a_dim, a_window, a_kernel, a_heads, a_table, a_coords,
                   a_index>>
    /\ UNCHANGED <<winVars, mergeVars, expandVars, stemVars, blockVars,
                   netVars>>

AttnNext == AttnInitTable \/ AttnInitIndex \/ AttnForward

(***************************************************************************)
(* The downsampling tail of BasicLayer.forward (lines 598-601): the tokens *)
(* go through ConvMerging.forward and the halved resolution is reported.   *)
(* The layer is in training mode, as built, or in evaluation mode, after   *)
(* eval(); norm_running is what its BatchNorm has folded into its running  *)
(* statistics.                                                             *)
(***************************************************************************)
MergeStart ==
    /\ m_pc = "start"
    /\ \E dim \in 1..MaxC, out_dim \in 1..MaxC, training \in BOOLEAN :
          m_self = [dim |-> dim, out_dim |-> out_dim, training |-> training,
                    norm_running |-> [c \in 1..dim |-> {}]]
    /\ \E B \in 1..MaxB, L \in 1..(MaxH * MaxH) :
          m_x = Tokens(B, L, m_self.dim)
    /\ m_HW \in (1..MaxH) \X (1..MaxH)
    /\ m_map = None
    /\ m_down = None
    /\ m_WhWw = <<0, 0>>

MergeIdle ==
    /\ m_pc = "idle"
    /\ m_self = [dim |-> 0, out_dim |-> 0, training |-> FALSE,
                 norm_running |-> <<>>]
    /\ m_x = None
    /\ m_HW = <<0, 0>>
    /\ m_map = None
    /\ m_down = None
    /\ m_WhWw = <<0, 0>>

BasicLayerDownsample ==
    /\ m_pc = "start"
    /\ m_map' = ConvMerging_map(m_self, m_x, m_HW[1], m_HW[2])
    /\ m_down' = ConvMerging_forward(m_self, m_x, m_HW[1], m_HW[2])
    /\ m_WhWw' = IF Ok(m_down')
                 THEN <<(m_HW[1] + 1) \div 2, (m_HW[2] + 1) \div 2>>
                 ELSE m_WhWw
    /\ m_self' = [m_self EXCEPT !.norm_running =
                      ConvMerging_running(m_self, m_x, m_HW[1], m_HW[2])]
    /\ m_pc' = "called"
    /\ UNCHANGED <<m_x, m_HW>>
    /\ UNCHANGED <<winVars, attnVars, expandVars, stemVars, blockVars,
                   netVars>>

MergeNext == BasicLayerDownsample

(***************************************************************************)
(* One PatchExpand layer called on a batch of tokens.                      *)
(***************************************************************************)
ExpandStart ==
    /\ e_pc = "start"
    /\ e_self \in [input_resolution : (1..MaxH) \X (1..MaxH),
                   dim : 1..MaxExpandDim]
    /\ \E B \in 1..MaxB, L \in 1..(MaxH * MaxH) :
          e_x = Tokens(B, L, e_self.dim)
    /\ e_out = None

ExpandIdle ==
    /\ e_pc = "idle"
    /\ e_self = [input_resolution |-> <<0, 0>>, dim |-> 0]
    /\ e_x = None
    /\ e_out = None

PatchExpandCall ==
    /\ e_pc = "start"
    /\ e_out' = PatchExpand_forward(e_self, e_x)
    /\ e_pc' = "called"
    /\ UNCHANGED <<e_self, e_x>>
    /\ UNCHANGED <<winVars, attnVars, mergeVars, stemVars, blockVars,
                   netVars>>

ExpandNext == PatchExpandCall

WinNext == WindowPartition \/ WindowReverse

(***************************************************************************)
(* One ConvEmbed layer: __init__ builds it from its arguments, then        *)
(* forward is called on an image batch (B, in_chans, H, W).                *)
(***************************************************************************)
\* The even patch sizes
PatchSizes == {p \in 2..MaxPatch : p % 2 = 0}

\* img_size, an integer as ConvEmbed documents it: to_2tuple repeats it
StemImgSizes == {n \in 1..MaxSide : n % 4 = 0}

StemStart ==
    /\ s_pc = "new"
    /\ s_args \in [img_size : StemImgSizes, patch_size : PatchSizes,
                   in_chans : {3}, embed_dim : {24}, norm_layer : BOOLEAN]
    /\ s_self = ConvEmbed_init(0, 1, 0, 0, FALSE)
    /\ \E H \in 1..MaxSide, W \in 1..MaxSide :
          s_x = Abstract(<<1, s_args.in_chans, H, W>>)
    /\ s_out = None

StemIdle ==
    /\ s_pc = "idle"
    /\ s_args = [img_size |-> 0, patch_size |-> 1, in_chans |-> 0,
                 embed_dim |-> 0, norm_layer |-> FALSE]
    /\ s_self = ConvEmbed_init(0, 1, 0, 0, FALSE)
    /\ s_x = None
    /\ s_out = None

\* ConvEmbed.__init__
ConvEmbedNew ==
    /\ s_pc = "new"
    /\ s_self' = ConvEmbed_init(s_args.img_size, s_args.patch_size,
                                s_args.in_chans, s_args.embed_dim,
                                s_args.norm_layer)
    /\ s_pc' = "built"
    /\ UNCHANGED <<s_args, s_x, s_out>>
    /\ UNCHANGED <<winVars, attnVars, mergeVars, expandVars, blockVars,
                   netVars>>

\* ConvEmbed.forward
ConvEmbedCall ==
    /\ s_pc = "built"
    /\ s_out' = ConvEmbed_forward(s_self, s_x)
    /\ s_pc' = "called"
    /\ UNCHANGED <<s_args, s_self, s_x>>
    /\ UNCHANGED <<winVars, attnVars, mergeVars, expandVars, blockVars,
                   netVars>>

StemNext == ConvEmbedNew \/ ConvEmbedCall

\* An attribute that is assigned only while it is still None
SetAttr_KeepFirst(old, value) == IF old = <<>> THEN <<value>> ELSE old

\* blk.H = H, blk.W = W: the attribute's old value is overwritten
SetAttr(old, value) == <<value>>

(***************************************************************************)
(* One MixingBlock: __init__ builds it from its arguments; the caller      *)
(* stores H and W in it and calls it on x and a mask_matrix, as the loop   *)
(* of BasicLayer.forward does with mask_matrix None.                       *)
(***************************************************************************)
NoLocals ==
    [pad |-> <<>>, Hp |-> 0, Wp |-> 0, rolled |-> FALSE, attn_mask |-> None,
     cropped |-> FALSE]

NoBlock == [Raise("None") EXCEPT !.shape = <<>>]

BlockStart ==
    /\ b_pc = "new"
    /\ b_args \in [dim : {16},
                   num_heads : {h \in 1..MaxHeads : 8 % h = 0},
                   window_size : 1..MaxWin, shift_size : 0..MaxShift,
                   dwconv_kernel_size : {3}, mlp_ratio : {4}]
    /\ b_self = NoBlock
    /\ \E B \in 1..MaxB, L \in 1..(MaxH * MaxH) :
          b_x = Abstract(<<B, L, b_args.dim>>)
    /\ b_mask \in {None,
                   Abstract(<<1, b_args.window_size * b_args.window_size,
                              b_args.window_size * b_args.window_size>>)}
    /\ b_trace = NoLocals
    /\ b_out = None

BlockIdle ==
    /\ b_pc = "idle"
    /\ b_args = [dim |-> 0, num_heads |-> 0, window_size |-> 0,
                 shift_size |-> 0, dwconv_kernel_size |-> 0, mlp_ratio |-> 0]
    /\ b_self = NoBlock
    /\ b_x = None
    /\ b_mask = None
    /\ b_trace = NoLocals
    /\ b_out = None

\* MixingBlock.__init__
MixingBlockNew ==
    /\ b_pc = "new"
    /\ b_self' = MixingBlock_init(b_args)
    /\ b_pc' = IF Ok(b_self') THEN "built" ELSE "raised"
    /\ UNCHANGED <<b_args, b_x, b_mask, b_trace, b_out>>
    /\ UNCHANGED <<winVars, attnVars, mergeVars, expandVars, stemVars,
                   netVars>>

\* blk.H, blk.W = H, W (line 596)
MixingBlockStore ==
    /\ b_pc = "built"
    /\ \E H \in 1..MaxH, W \in 1..MaxH :
          b_self' = [b_self EXCEPT !.H = SetAttr(@, H), !.W = SetAttr(@, W)]
    /\ b_pc' = "stored"
    /\ UNCHANGED <<b_args, b_x, b_mask, b_trace, b_out>>
    /\ UNCHANGED <<winVars, attnVars, mergeVars, expandVars, stemVars,
                   netVars>>

\* blk(x, mask_matrix): MixingBlock.forward
MixingBlockCall ==
    /\ b_pc = "stored"
    /\ \E out \in {MixingBlock_call(b_self, b_x, b_mask)} :
          /\ b_out' = out
          /\ b_trace' = IF b_x.shape[2] = b_self.H[1] * b_self.W[1]
                        THEN MixingBlock_locals(b_self, b_x, b_mask)
                        ELSE NoLocals
    /\ b_pc' = "called"
    /\ UNCHANGED <<b_args, b_self, b_x, b_mask>>
    /\ UNCHANGED <<winVars, attnVars, mergeVars, expandVars, stemVars,
                   netVars>>

BlockNext == MixingBlockNew \/ MixingBlockStore \/ MixingBlockCall

(***************************************************************************)
(* One MixUnet instance: __init__ builds it from its arguments, then       *)
(* threads call forward on it.  Each thread makes its calls one after the  *)
(* other; the calls of different threads interleave at the attribute       *)
(* stores and loads of the MixingBlocks.                                   *)
(***************************************************************************)
Threads == {1, 2}

\* drop_path_rate, in hundredths
Rates == {0, 10, 25}

\* The sizes (H, W) of the images handed to forward; the batch is 1.  The
\* instances are built for 32 x 32: an image of 28 x 28 fails at the first
\* downsample, one of 64 x 64 at the first upsample.
Images == {<<32, 32>>, <<28, 28>>, <<64, 64>>}

\* The tuple of the elements of S in ascending order
AscendingTuple(S) ==
    CHOOSE q \in [1..Cardinality(S) -> S] :
        \A a, b \in 1..Cardinality(S) : a < b => q[a] < q[b]

\* The default arguments of MixUnet.__init__ (lines 801-821), with a small
\* image size; drop_path_rate 0.1 is 10 hundredths.
DefaultArgs ==
    [img_size |-> 32, patch_size |-> 4, in_chans |-> 3,
     embed_dim |-> [kind |-> "int", value |-> 24],
     depths |-> <<2, 2, 6, 2>>, num_heads |-> <<3, 6, 12, 24>>,
     window_size |-> 7, dwconv_kernel_size |-> 3, mlp_ratio |-> 4,
     drop_path_rate |-> 10, out_indices |-> <<1, 2, 3>>,
     ape |-> FALSE, patch_norm |-> TRUE]

\* Arguments for building instances of one to MaxLayers stages
BuildArgs ==
    LET DepthLists == UNION {[1..n -> 0..MaxDepth] : n \in 1..MaxLayers}
        EmbedDims(n) == {[kind |-> "int", value |-> 24],
                         [kind |-> "list", value |-> [i \in 1..n |-> 24 * i]],
                         [kind |-> "list", value |-> <<24, 48>>]}
    IN  {[DefaultArgs EXCEPT !.depths = d, !.embed_dim = e,
                             !.num_heads = [i \in 1..Len(d) |-> 3 * Pow2(i - 1)],
                             !.drop_path_rate = r, !.patch_norm = pn] :
            d \in DepthLists, e \in EmbedDims(MaxLayers), r \in Rates,
            pn \in BOOLEAN}

\* Arguments for the 4-stage instances forward is called on: every choice
\* of out_indices, few blocks and a small window
ForwardArgs ==
    {[DefaultArgs EXCEPT !.depths = <<2, 1, 1, 1>>, !.window_size = 3,
                         !.out_indices = AscendingTuple(S)] :
        S \in SUBSET (0..3)}

\* The attributes of an instance before __init__ has assigned them
NoSelf ==
    [num_layers |-> 0, embed_dim |-> <<>>, ape |-> FALSE,
     patch_norm |-> FALSE, num_feature |-> 0, num_channel |-> <<>>,
     mlp_ratio |-> 0, out_indices |-> <<>>,
     patch_embed |-> ConvEmbed_init(0, 1, 0, 0, FALSE),
     patches_resolution |-> <<0, 0>>, dpr |-> <<>>, layers |-> <<>>,
     layers_up |-> <<>>, concat_back_dim |-> <<>>, norm |-> 0]

\* The name of a value forward computes: the result of operation op of
\* stage i of the encoder ("layers") or the decoder ("layers_up"), for a
\* block its index j
Value(stage, i, op, j) == [stage |-> stage, i |-> i, op |-> op, j |-> j]

\* The locals of a forward call that has not started; x_is names the value
\* x holds, skips the values x_downsample holds; grids holds, per entry of
\* x_list, the (Wh, Ww) of the decoder stage it is the output of; encoded is
\* the shape of the final encoder output once forward_features has it
NoFrame ==
    [pc |-> "idle", image |-> <<0, 0>>, x |-> None, Wh |-> 0, Ww |-> 0,
     H |-> 0, W |-> 0, i |-> 0, j |-> 0, phase |-> "",
     selfH |-> <<>>, selfW |-> <<>>, x_downsample |-> <<>>,
     x_list |-> <<>>, x_ilayer |-> None,
     x_is |-> Value("", 0, "", 0), skips |-> <<>>, grids |-> <<>>,
     encoded |-> <<>>]

NetStart(args, left) ==
    /\ n_pc = "new"
    /\ n_args \in args
    /\ n_self = NoSelf
    /\ n_blk = <<>>
    /\ n_call = [t \in Threads |-> NoFrame]
    /\ n_left = left
    /\ n_done = [t \in Threads |-> <<>>]

NetIdle ==
    /\ n_pc = "idle"
    /\ n_args = DefaultArgs
    /\ n_self = NoSelf
    /\ n_blk = <<>>
    /\ n_call = [t \in Threads |-> NoFrame]
    /\ n_left = [t \in Threads |-> [calls |-> 0, images |-> {}]]
    /\ n_done = [t \in Threads |-> <<>>]

\* The attributes H and W of the freshly built blocks of a stage
NewBlocks(list, i_layer, depth) ==
    [id \in {<<list, i_layer, j>> : j \in 0..(depth - 1)} |->
        [H |-> <<>>, W |-> <<>>]]

\* __init__, lines 823-869: the attributes, the stem and the rates
InitStem ==
    /\ n_pc = "new"
    /\ LET num_layers == Len(n_args.depths)
           embed_dim == EmbedDimList(n_args.embed_dim, num_layers)
           patch_embed == ConvEmbed_init(n_args.img_size, n_args.patch_size,
                                         n_args.in_chans, embed_dim[1],
                                         n_args.patch_norm)
       IN  IF Len(embed_dim) # num_layers
           THEN /\ n_pc' = "raised"
                /\ UNCHANGED n_self
           ELSE /\ n_pc' = "layers"
                /\ n_self' =
                      [NoSelf EXCEPT
                          !.num_layers = num_layers,
                          !.embed_dim = embed_dim,
                          !.ape = n_args.ape,
                          !.patch_norm = n_args.patch_norm,
                          !.num_feature = embed_dim[num_layers],
                          !.num_channel = embed_dim,
                          !.mlp_ratio = n_args.mlp_ratio,
                          !.out_indices = n_args.out_indices,
                          !.patch_embed = patch_embed,
                          !.patches_resolution = patch_embed.patches_resolution,
                          !.dpr = linspace(n_args.drop_path_rate,
                                           SumSeq(n_args.depths))]
    /\ UNCHANGED <<n_args, n_blk, n_call, n_left, n_done>>
    /\ UNCHANGED <<winVars, attnVars, mergeVars, expandVars, stemVars,
                   blockVars>>

\* __init__, lines 871-891: one turn of the encoder loop
InitLayer ==
    /\ n_pc = "layers"
    /\ LET i_layer == Len(n_self.layers)
           layer == BasicLayer_init(n_args, n_self.embed_dim, n_self.dpr,
                                    i_layer)
       IN  /\ n_self' = [n_self EXCEPT !.layers = Append(@, layer)]
           /\ n_blk' = n_blk @@ NewBlocks("layers", i_layer, layer.depth)
           /\ n_pc' = IF i_layer + 1 < n_self.num_layers
                      THEN "layers" ELSE "layers_up"
    /\ UNCHANGED <<n_args, n_call, n_left, n_done>>
    /\ UNCHANGED <<winVars, attnVars, mergeVars, expandVars, stemVars,
                   blockVars>>

\* __init__, lines 895-924: one turn of the decoder loop
InitLayerUp ==
    /\ n_pc = "layers_up"
    /\ Len(n_self.layers_up) < n_self.num_layers - 1
    /\ LET i_layer == Len(n_self.layers_up)
           layer_up == LayerUp_init(n_args, n_self.embed_dim, n_self.dpr,
                                    n_self.patches_resolution, i_layer)
           concat_linear == ConcatLinear_init(n_self.embed_dim,
                                              n_self.num_layers, i_layer)
       IN  /\ n_self' = [n_self EXCEPT
                            !.layers_up = Append(@, layer_up),
                            !.concat_back_dim = Append(@, concat_linear)]
           /\ n_blk' = n_blk @@ NewBlocks("layers_up", i_layer,
                                          layer_up.depth)
    /\ UNCHANGED <<n_pc, n_args, n_call, n_left, n_done>>
    /\ UNCHANGED <<winVars, attnVars, mergeVars, expandVars, stemVars,
                   blockVars>>

\* __init__, lines 928-954: the final norm; the instance is built
InitNorm ==
    /\ n_pc = "layers_up"
    /\ Len(n_self.layers_up) = n_self.num_layers - 1
    /\ n_self' = [n_self EXCEPT !.norm = n_self.num_feature]
    /\ n_pc' = "built"
    /\ UNCHANGED <<n_args, n_blk, n_call, n_left, n_done>>
    /\ UNCHANGED <<winVars, attnVars, mergeVars, expandVars, stemVars,
                   blockVars>>

BuildNext == InitStem \/ InitLayer \/ InitLayerUp \/ InitNorm

(***************************************************************************)
(* MixUnet.forward (lines 981-1056), one step per action.  A step that     *)
(* raises ends the call with the exception as its outcome.                 *)
(***************************************************************************)
\* int(math.sqrt(L))
IntSqrt(L) == CHOOSE r \in 0..L : r * r <= L /\ (r + 1) * (r + 1) > L

\* list[i] for a list of tensors, negative i counting from the end
ListItem(list, i) ==
    LET k == IF i < 0 THEN i + Len(list) ELSE i
    IN  IF k < 0 \/ k >= Len(list)
        THEN Raise("IndexError: list index out of range")
        ELSE list[k + 1]

\* Lines 1012-1016 and 1024-1027: the tokens (B, L, C) of a decoder stage
\* as a map (B, C, H, W) with H = W = int(sqrt(L))
StageMap(output) ==
    IF ~Ok(output) THEN output
    ELSE LET B == output.shape[1]
             L == output.shape[2]
             C == output.shape[3]
             H == IntSqrt(L)
         IN  Transpose(Reshape(output, <<B, H, H, C>>), <<0, 3, 1, 2>>)

\* The attributes a MixingBlock of the stage was built with; the instance
\* is in training mode, as built
BlockSelf(layer) ==
    [dim |-> layer.dim, num_heads |-> layer.num_heads,
     window_size |-> layer.window_size,
     dwconv_kernel_size |-> layer.dwconv_kernel_size,
     mlp_ratio |-> layer.mlp_ratio, training |-> TRUE]

\* The stage whose forward the frame is in, and the block it is at
FrameLayer(f) ==
    IF f.phase = "layers" THEN n_self.layers[f.i + 1]
    ELSE n_self.layers_up[f.i + 1]

FrameBlock(f) == <<f.phase, f.i, f.j>>

\* The call of thread t goes on with the locals f.
Continue(t, f) ==
    /\ n_call' = [n_call EXCEPT ![t] = f]
    /\ UNCHANGED n_done

\* The call of thread t ends: it returns outs, or raises err.  What is
\* kept of it is its image, its outcome and the stage outputs x_list.
Finish(t, outs, err) ==
    /\ n_call' = [n_call EXCEPT ![t] = NoFrame]
    /\ n_done' = [n_done EXCEPT ![t] =
                     Append(@, [image |-> n_call[t].image,
                                x_list |-> n_call[t].x_list,
                                grids |-> n_call[t].grids,
                                encoded |-> n_call[t].encoded,
                                outs |-> outs, err |-> err,
                                at |-> n_call[t].pc,
                                phase |-> n_call[t].phase,
                                i |-> n_call[t].i])]

\* BasicLayer.forward and BasicLayer_up.forward are entered with H, W.
EnterLayer(f, x, layer) ==
    [f EXCEPT !.x = x, !.H = f.Wh, !.W = f.Ww, !.j = 0,
              !.selfH = <<>>, !.selfW = <<>>,
              !.pc = IF layer.depth > 0 THEN "store_H" ELSE "after_blocks"]

\* forward is called on an image (line 1043)
Forward(t) ==
    /\ n_pc = "built"
    /\ n_call[t].pc = "idle"
    /\ n_left[t].calls > 0
    /\ n_left' = [n_left EXCEPT ![t].calls = @ - 1]
    /\ \E image \in n_left[t].images :
          Continue(t, [NoFrame EXCEPT
                          !.pc = "patch_embed", !.image = image,
                          !.x = Abstract(<<1, n_args.in_chans, image[1],
                                           image[2]>>)])
    /\ UNCHANGED <<n_pc, n_args, n_self, n_blk>>
    /\ UNCHANGED <<winVars, attnVars, mergeVars, expandVars, stemVars,
                   blockVars>>

\* forward_features, lines 982-989
PatchEmbed(t) ==
    /\ n_call[t].pc = "patch_embed"
    /\ \E x \in {ConvEmbed_forward(n_self.patch_embed, n_call[t].x)} :
          LET f == n_call[t]
              x1 == Transpose(Flatten2(x), <<0, 2, 1>>)
              x2 == IF n_self.ape
                    THEN Broadcast(x1,
                                   Abstract(<<1, n_self.patch_embed.num_patches,
                                              n_self.embed_dim[1]>>))
                    ELSE x1
          IN  IF ~Ok(x2) THEN Finish(t, <<>>, x2.err)
              ELSE Continue(t, [f EXCEPT !.x = x2, !.Wh = x.shape[3],
                                         !.Ww = x.shape[4],
                                         !.x_is = Value("", 0, "patch_embed", 0),
                                         !.phase = "layers",
                                         !.i = 0, !.pc = "layers"])
    /\ UNCHANGED <<n_pc, n_args, n_self, n_blk, n_left>>
    /\ UNCHANGED <<winVars, attnVars, mergeVars, expandVars, stemVars,
                   blockVars>>

\* x_downsample.append(x) (line 993)
AppendSkip(x_downsample, x) == Append(x_downsample, x)

\* forward_features, lines 990-994: the skip is kept and the stage entered
EncoderLayer(t) ==
    /\ n_call[t].pc = "layers"
    /\ n_call[t].i < Len(n_self.layers)
    /\ LET f == n_call[t]
       IN  Continue(t, [EnterLayer(f, f.x, n_self.layers[f.i + 1]) EXCEPT
                           !.x_downsample = AppendSkip(@, f.x),
                           !.skips = AppendSkip(@, f.x_is)])
    /\ UNCHANGED <<n_pc, n_args, n_self, n_blk, n_left>>
    /\ UNCHANGED <<winVars, attnVars, mergeVars, expandVars, stemVars,
                   blockVars>>

\* BasicLayer.forward line 596, BasicLayer_up.forward line 656: blk.H = H
StoreH(t) ==
    /\ n_call[t].pc = "store_H"
    /\ n_blk' = [n_blk EXCEPT ![FrameBlock(n_call[t])].H =
                                 SetAttr(@, n_call[t].H)]
    /\ Continue(t, [n_call[t] EXCEPT !.pc = "store_W"])
    /\ UNCHANGED <<n_pc, n_args, n_self, n_left>>
    /\ UNCHANGED <<winVars, attnVars, mergeVars, expandVars, stemVars,
                   blockVars>>

\* The same lines: blk.W = W, then blk(x, None) is entered
StoreW(t) ==
    /\ n_call[t].pc = "store_W"
    /\ n_blk' = [n_blk EXCEPT ![FrameBlock(n_call[t])].W =
                                 SetAttr(@, n_call[t].W)]
    /\ Continue(t, [n_call[t] EXCEPT !.pc = "load_H"])
    /\ UNCHANGED <<n_pc, n_args, n_self, n_left>>
    /\ UNCHANGED <<winVars, attnVars, mergeVars, expandVars, stemVars,
                   blockVars>>

\* MixingBlock.forward line 388: self.H is read
LoadH(t) ==
    /\ n_call[t].pc = "load_H"
    /\ Continue(t, [n_call[t] EXCEPT
                       !.selfH = n_blk[FrameBlock(n_call[t])].H,
                       !.pc = "load_W"])
    /\ UNCHANGED <<n_pc, n_args, n_self, n_blk, n_left>>
    /\ UNCHANGED <<winVars, attnVars, mergeVars, expandVars, stemVars,
                   blockVars>>

\* MixingBlock.forward lines 388-449: self.W is read and the block runs
LoadW(t) ==
    /\ n_call[t].pc = "load_W"
    /\ LET f == n_call[t]
           layer == FrameLayer(f)
           selfW == n_blk[FrameBlock(f)].W
       IN  \E x \in {MixingBlock_forward(BlockSelf(layer), f.x, f.selfH,
                                          selfW)} :
              IF ~Ok(x) THEN Finish(t, <<>>, x.err)
              ELSE Continue(t, [f EXCEPT
                                   !.x = x, !.selfW = selfW, !.j = f.j + 1,
                                   !.x_is = Value(f.phase, f.i, "blk", f.j),
                                   !.pc = IF f.j + 1 < layer.depth
                                          THEN "store_H"
                                          ELSE "after_blocks"])
    /\ UNCHANGED <<n_pc, n_args, n_self, n_blk, n_left>>
    /\ UNCHANGED <<winVars, attnVars, mergeVars, expandVars, stemVars,
                   blockVars>>

\* BasicLayer.forward lines 598-603: the downsample and the return
EncoderDownsample(t) ==
    /\ n_call[t].pc = "after_blocks"
    /\ n_call[t].phase = "layers"
    /\ LET f == n_call[t]
           layer == FrameLayer(f)
       IN  IF layer.downsample
           THEN \E x_down \in {ConvMerging_forward(
                                   [dim |-> layer.dim,
                                    out_dim |-> layer.out_dim,
                                    training |-> TRUE],
                                   f.x, f.H, f.W)} :
                   IF ~Ok(x_down) THEN Finish(t, <<>>, x_down.err)
                   ELSE Continue(t, [f EXCEPT !.x = x_down,
                                              !.x_is = Value("layers", f.i,
                                                             "downsample", 0),
                                              !.Wh = (f.H + 1) \div 2,
                                              !.Ww = (f.W + 1) \div 2,
                                              !.i = f.i + 1,
                                              !.pc = "layers"])
           ELSE Continue(t, [f EXCEPT !.Wh = f.H, !.Ww = f.W,
                                      !.i = f.i + 1, !.pc = "layers"])
    /\ UNCHANGED <<n_pc, n_args, n_self, n_blk, n_left>>
    /\ UNCHANGED <<winVars, attnVars, mergeVars, expandVars, stemVars,
                   blockVars>>

\* forward_features lines 996-997 and forward_up_features line 1007
EncoderNorm(t) ==
    /\ n_call[t].pc = "layers"
    /\ n_call[t].i = Len(n_self.layers)
    /\ LET f == n_call[t]
           x == LayerNorm(f.x, n_self.norm)
       IN  IF ~Ok(x) THEN Finish(t, <<>>, x.err)
           ELSE Continue(t, [f EXCEPT !.x = x, !.phase = "layers_up",
                                      !.x_is = Value("", 0, "norm", 0),
                                      !.i = 0, !.x_list = <<>>,
                                      !.grids = <<>>,
                                      !.encoded = x.shape,
                                      !.pc = "layers_up"])
    /\ UNCHANGED <<n_pc, n_args, n_self, n_blk, n_left>>
    /\ UNCHANGED <<winVars, attnVars, mergeVars, expandVars, stemVars,
                   blockVars>>

\* forward_up_features lines 1009-1021, 1033-1034: the first decoder
\* stage, a bare PatchExpand
DecoderExpand(t) ==
    /\ n_call[t].pc = "layers_up"
    /\ n_call[t].i < Len(n_self.layers_up)
    /\ n_call[t].i = 0
    /\ LET f == n_call[t]
           layer_up == n_self.layers_up[1]
           output == f.x
       IN  \E x \in {PatchExpand_forward([input_resolution |->
                                              layer_up.input_resolution,
                                          dim |-> layer_up.dim], f.x)},
              x_ilayer \in {StageMap(output)} :
              IF ~Ok(x) THEN Finish(t, <<>>, x.err)
              ELSE IF ~Ok(x_ilayer) THEN Finish(t, <<>>, x_ilayer.err)
              ELSE Continue(t, [f EXCEPT !.x = x, !.x_ilayer = x_ilayer,
                                         !.x_is = Value("layers_up", 0,
                                                        "upsample", 0),
                                         !.x_list = Append(@, x_ilayer),
                                         !.grids = Append(@, <<f.Wh, f.Ww>>),
                                         !.Wh = f.Wh * 2, !.Ww = f.Ww * 2,
                                         !.i = 1])
    /\ UNCHANGED <<n_pc, n_args, n_self, n_blk, n_left>>
    /\ UNCHANGED <<winVars, attnVars, mergeVars, expandVars, stemVars,
                   blockVars>>

\* The skips taken in the order in which they were recorded
SkipIndex_SameOrder(inx) == inx

\* The index of the skip decoder stage inx concatenates (line 1023)
SkipIndex(inx) == 3 - inx

\* forward_up_features lines 1022-1024: the skip is concatenated and the
\* stage entered
DecoderLayer(t) ==
    /\ n_call[t].pc = "layers_up"
    /\ n_call[t].i < Len(n_self.layers_up)
    /\ n_call[t].i > 0
    /\ LET f == n_call[t]
           concat_linear == n_self.concat_back_dim[f.i + 1]
           x1 == ConcatLast(f.x, ListItem(f.x_downsample, SkipIndex(f.i)))
       IN  \E x2 \in {IF concat_linear.identity THEN x1
                       ELSE Linear(x1, concat_linear.in_features,
                                   concat_linear.out_features)} :
              IF ~Ok(x2) THEN Finish(t, <<>>, x2.err)
              ELSE Continue(t, [EnterLayer(f, x2,
                                           n_self.layers_up[f.i + 1]) EXCEPT
                                   !.x_is = Value("layers_up", f.i,
                                                  "concat_back_dim", 0)])
    /\ UNCHANGED <<n_pc, n_args, n_self, n_blk, n_left>>
    /\ UNCHANGED <<winVars, attnVars, mergeVars, expandVars, stemVars,
                   blockVars>>

\* BasicLayer_up.forward lines 658-661 and forward_up_features lines
\* 1025-1034: the upsample, and the stage's output kept as a map
DecoderUpsample(t) ==
    /\ n_call[t].pc = "after_blocks"
    /\ n_call[t].phase = "layers_up"
    /\ LET f == n_call[t]
           layer_up == FrameLayer(f)
           output == f.x
       IN  \E x \in {PatchExpand_forward([input_resolution |->
                                              layer_up.input_resolution,
                                          dim |-> layer_up.dim], f.x)},
              x_ilayer \in {StageMap(output)} :
              IF ~Ok(x) THEN Finish(t, <<>>, x.err)
              ELSE IF ~Ok(x_ilayer) THEN Finish(t, <<>>, x_ilayer.err)
              ELSE Continue(t, [f EXCEPT !.x = x, !.x_ilayer = x_ilayer,
                                         !.x_is = Value("layers_up", f.i,
                                                        "upsample", 0),
                                         !.x_list = Append(@, x_ilayer),
                                         !.grids = Append(@, <<f.Wh, f.Ww>>),
                                         !.Wh = f.Wh * 2, !.Ww = f.Ww * 2,
                                         !.i = f.i + 1, !.pc = "layers_up"])
    /\ UNCHANGED <<n_pc, n_args, n_self, n_blk, n_left>>
    /\ UNCHANGED <<winVars, attnVars, mergeVars, expandVars, stemVars,
                   blockVars>>

\* The maps forward collects from x_list without a reversal of the order
Collect_DeepestFirst(self, x_list) ==
    [k \in 1..(self.num_layers - 1) |-> x_list[k]]

\* forward lines 1048-1053: x_list[i] for i from num_layers-2 down to 0
Collect(self, x_list) ==
    [k \in 1..(self.num_layers - 1) |-> x_list[self.num_layers - k]]

\* forward_up_features line 1037 and forward lines 1048-1056
Return(t) ==
    /\ n_call[t].pc = "layers_up"
    /\ n_call[t].i = Len(n_self.layers_up)
    /\ IF n_call[t].x_ilayer = None
       THEN Finish(t, <<>>, "UnboundLocalError: local variable 'x_ilayer' referenced before assignment")
       ELSE Finish(t, Collect(n_self, n_call[t].x_list), "")
    /\ UNCHANGED <<n_pc, n_args, n_self, n_blk, n_left>>
    /\ UNCHANGED <<winVars, attnVars, mergeVars, expandVars, stemVars,
                   blockVars>>

ForwardNext ==
    \E t \in Threads :
        \/ Forward(t)
        \/ PatchEmbed(t)
        \/ EncoderLayer(t)
        \/ StoreH(t)
        \/ StoreW(t)
        \/ LoadH(t)
        \/ LoadW(t)
        \/ EncoderDownsample(t)
        \/ EncoderNorm(t)
        \/ DecoderExpand(t)
        \/ DecoderLayer(t)
        \/ DecoderUpsample(t)
        \/ Return(t)

Next == BuildNext \/ ForwardNext


(***************************************************************************)
(* Specifications.  Each starts one part of the module on its inputs and   *)
(* leaves the others idle.                                                 *)
(***************************************************************************)
WinInit == WinStart /\ AttnIdle /\ MergeIdle /\ ExpandIdle
    /\ StemIdle /\ BlockIdle /\ NetIdle

SpecWindow == WinInit /\ [][WinNext]_vars

AttnInit == AttnStart /\ WinIdle /\ MergeIdle /\ ExpandIdle
    /\ StemIdle /\ BlockIdle /\ NetIdle

SpecAttn == AttnInit /\ [][AttnNext]_vars

MergeInit == MergeStart /\ WinIdle /\ AttnIdle /\ ExpandIdle
    /\ StemIdle /\ BlockIdle /\ NetIdle

SpecMerge == MergeInit /\ [][MergeNext]_vars

ExpandInit == ExpandStart /\ WinIdle /\ AttnIdle /\ MergeIdle
    /\ StemIdle /\ BlockIdle /\ NetIdle

SpecExpand == ExpandInit /\ [][ExpandNext]_vars

StemInit ==
    /\ StemStart /\ WinIdle /\ AttnIdle /\ MergeIdle /\ ExpandIdle
    /\ BlockIdle /\ NetIdle

SpecStem == StemInit /\ [][StemNext]_vars

BlockInit ==
    /\ BlockStart /\ WinIdle /\ AttnIdle /\ MergeIdle /\ ExpandIdle
    /\ StemIdle /\ NetIdle

SpecBlock == BlockInit /\ [][BlockNext]_vars

BuildInit ==
    /\ NetStart(BuildArgs, [t \in Threads |-> [calls |-> 0, images |-> {}]])
    /\ WinIdle /\ AttnIdle /\ MergeIdle /\ ExpandIdle
    /\ StemIdle /\ BlockIdle

SpecBuild == BuildInit /\ [][BuildNext]_vars

\* One thread calls forward MaxCalls times, one call after the other.
Init ==
    /\ NetStart(ForwardArgs,
                [t \in Threads |-> IF t = 1
                                   THEN [calls |-> MaxCalls, images |-> Images]
                                   ELSE [calls |-> 0, images |-> {}]])
    /\ WinIdle /\ AttnIdle /\ MergeIdle /\ ExpandIdle
    /\ StemIdle /\ BlockIdle

Spec == Init /\ [][Next]_vars

\* Two threads call forward once each on the instance with the default
\* out_indices: one on an image of the size the instance was built for,
\* the other on such an image or on a smaller one.
ConcInit ==
    /\ NetStart({a \in ForwardArgs : a.out_indices = <<1, 2, 3>>},
                [t \in Threads |->
                    [calls |-> 1,
                     images |-> IF t = 1 THEN {<<32, 32>>}
                                ELSE {<<32, 32>>, <<28, 28>>}]])
    /\ WinIdle /\ AttnIdle /\ MergeIdle /\ ExpandIdle
    /\ StemIdle /\ BlockIdle

SpecConc == ConcInit /\ [][Next]_vars

\* The img_size of the instances, and the sizes (H, W) of the square and
\* oblong images handed to them
RectSizes == {32, 64}

RectImages == {<<32, 32>>, <<64, 64>>, <<32, 128>>}

\* One thread calls forward once, on an instance built for 32 x 32 or for
\* 64 x 64 images, with a square or an oblong image.
RectInit ==
    /\ NetStart({[a EXCEPT !.img_size = size] :
                    a \in {b \in ForwardArgs : b.out_indices = <<1, 2, 3>>},
                    size \in RectSizes},
                [t \in Threads |-> IF t = 1
                                   THEN [calls |-> 1, images |-> RectImages]
                                   ELSE [calls |-> 0, images |-> {}]])
    /\ WinIdle /\ AttnIdle /\ MergeIdle /\ ExpandIdle
    /\ StemIdle /\ BlockIdle

SpecRect == RectInit /\ [][Next]_vars

\*-- end of specifications

(***************************************************************************)
(* Claims.                                                                 *)
(***************************************************************************)
\* The precondition of the windowing contract: the window divides the map.
WinDivides ==
    /\ w_x.shape[3] % w_size[1] = 0
    /\ w_x.shape[4] % w_size[2] = 0

\* C1: when the window size divides H and W, window_partition2 returns a
\* tensor of shape (B*(H/wh)*(W/ww), wh*ww, C), and window_reverse2 of it
\* with the same H, W, C is the original map, element for element.
C1_WindowRoundTrip ==
    WinDivides =>
       /\ w_pc \in {"partitioned", "reversed"} =>
             /\ Ok(w_windows)
             /\ w_windows.shape =
                   << w_x.shape[1] * (w_x.shape[3] \div w_size[1])
                                   * (w_x.shape[4] \div w_size[2]),
                      w_size[1] * w_size[2],
                      w_x.shape[2] >>
       /\ w_pc = "reversed" => w_back = w_x

\* A round trip over a map with several batches, channels and windows of
\* more than one row and column.
C1_Witness ==
    /\ w_pc = "reversed"
    /\ WinDivides
    /\ w_x.shape = <<2, 2, 4, 4>>
    /\ w_size = <<2, 2>>
    /\ w_back = w_x
    /\ w_windows.data # w_x.data

\* C5: every entry of relative_position_index lies in
\* [0, (2*Wh-1)*(2*Ww-1)), the index has shape (Wh*Ww, Wh*Ww), and the
\* lookup into the bias table (which has that many rows) is in bounds
\* whenever forward reaches it.
C5_RelPosIndexInBounds ==
    LET rows == (2 * a_window[1] - 1) * (2 * a_window[2] - 1)
        N == a_window[1] * a_window[2]
    IN  /\ a_pc \in {"coords", "built", "called"} => a_table.shape[1] = rows
        /\ a_pc \in {"built", "called"} =>
              /\ a_index.shape = <<N, N>>
              /\ \A i \in 1..Len(a_index.data) :
                    a_index.data[i] >= 0 /\ a_index.data[i] < rows
        /\ (a_pc = "called" /\ a_bias # None) =>
              /\ Ok(a_bias)
              /\ a_bias.shape = <<a_heads, N, N>>

\* A lookup done for a window that is not square and has several rows and
\* columns, whose index reaches both the first and the last table row.
C5_Witness ==
    /\ a_pc = "called"
    /\ a_window = <<2, 3>>
    /\ Ok(a_bias)
    /\ \E i \in 1..Len(a_index.data) : a_index.data[i] = 0
    /\ \E i \in 1..Len(a_index.data) : a_index.data[i] = 14

\* The precondition of MixingAttention.forward: H and W are multiples of
\* the window size, the batch of windows is B * nW windows, dim is even
\* and dim/2 is divisible by num_heads.
AttnValidInput ==
    /\ a_HW[1] % a_window[1] = 0
    /\ a_HW[2] % a_window[2] = 0
    /\ a_x.shape[1] % ((a_HW[1] \div a_window[1])
                       * (a_HW[2] \div a_window[2])) = 0
    /\ a_dim % 2 = 0
    /\ (a_dim \div 2) % a_heads = 0

\* C7: MixingAttention.forward preserves the shape of its input: whenever
\* it returns, the result has the input's shape (B*nW, Wh*Ww, dim), and the
\* attention half and the convolution half each have dim/2 channels; on a
\* valid input it returns when the layer's depth-wise kernel size is odd,
\* which the dwconv's padding of kernel_size // 2 needs to keep the map's
\* size, and raises when the kernel size is even.
C7_AttentionShapePreserving ==
    a_pc = "called" =>
       /\ Ok(a_out) =>
             /\ a_out.shape = a_x.shape
             /\ a_halves.x_atten.shape = SetLast(a_x.shape, a_dim \div 2)
             /\ a_halves.x_cnn.shape = SetLast(a_x.shape, a_dim \div 2)
       /\ (AttnValidInput /\ (a_kernel % 2) = 1) => Ok(a_out)
       /\ (AttnValidInput /\ (a_kernel % 2) = 0) => ~Ok(a_out)

\* A call on several windows per image, with more than one head.
C7_Witness ==
    /\ a_pc = "called"
    /\ AttnValidInput
    /\ a_window = <<2, 2>>
    /\ a_HW = <<4, 4>>
    /\ a_x.shape = <<4, 4, 16>>
    /\ a_heads = 2
    /\ a_kernel = 3
    /\ Ok(a_out)
    /\ a_out.shape = <<4, 4, 16>>
    /\ a_halves.x_cnn.shape = <<4, 4, 8>>

\* C7 as stated: on every valid input, whatever the depth-wise kernel size
\* the layer was built with, forward returns a tensor of the input's shape
\* whose halves have dim/2 channels each.
C7_AsStated ==
    (a_pc = "called" /\ AttnValidInput) =>
        /\ Ok(a_out)
        /\ a_out.shape = a_x.shape
        /\ a_halves.x_atten.shape = SetLast(a_x.shape, a_dim \div 2)
        /\ a_halves.x_cnn.shape = SetLast(a_x.shape, a_dim \div 2)

\* A call on valid input of a layer of width 32 built with the even kernel
\* size 2 has raised.
C7_EvenKernel ==
    /\ a_pc = "called"
    /\ AttnValidInput
    /\ a_dim = 32
    /\ a_kernel = 2
    /\ ~Ok(a_out)

\* The precondition of ConvMerging.forward: L = H*W with H and W even.
MergeValidInput ==
    /\ m_x.shape[2] = m_HW[1] * m_HW[2]
    /\ m_HW[1] % 2 = 0
    /\ m_HW[2] % 2 = 0

\* The tokens of the 2x2 block of the H x W grid at rows 2i..2i+1 and
\* columns 2j..2j+1.
Block2x2(i, j, W) ==
    { (2 * i + di) * W + (2 * j + dj) : di \in 0..1, dj \in 0..1 }

\* The tokens of batch element b that the element o of output token
\* (i, j) of the merged map is computed from
MergedFrom(b, i, j, o) ==
    m_down.data[Ravel(<<b, i * (m_HW[2] \div 2) + j, o>>, m_down.shape) + 1]

\* What C8 says of the shapes and of the assertions: valid input gives
\* (B, (H/2)*(W/2), out_dim) tokens and the reported (Wh, Ww) is the grid
\* of the output; other input raises an assertion error.
MergeShapes ==
    m_pc = "called" =>
       IF MergeValidInput
       THEN LET h == m_HW[1] \div 2
                w == m_HW[2] \div 2
            IN  /\ Ok(m_down)
                /\ m_down.shape = <<m_x.shape[1], h * w, m_self.out_dim>>
                /\ m_WhWw = <<m_map.shape[3], m_map.shape[4]>>
                /\ m_WhWw = <<h, w>>
       ELSE /\ ~Ok(m_down)
            /\ m_down.err \in {"AssertionError: input feature has wrong size",
                               "AssertionError: x size are not even"}

\* C8: on (B, H*W, C) tokens with H, W even, ConvMerging.forward returns
\* (B, (H/2)*(W/2), out_dim) tokens and the (Wh, Ww) BasicLayer.forward
\* reports is the grid of the output; with H or W odd, or L # H*W, the call
\* raises an assertion error.  With the layer in evaluation mode output
\* token (i, j) is computed from exactly the 2x2 input block at rows
\* 2i..2i+1, columns 2j..2j+1, and the running statistics of the norm are
\* left as they were; in training mode, the mode the layer is built in,
\* the norm takes its statistics from the whole batch, every output token
\* is computed from every input token, and the running statistics are
\* updated from every input token.
C8_ConvMergingHalves ==
    /\ MergeShapes
    /\ (m_pc = "called" /\ MergeValidInput) =>
          LET h == m_HW[1] \div 2
              w == m_HW[2] \div 2
              all == 0..(m_x.shape[2] - 1)
          IN  /\ \A b \in 0..(m_x.shape[1] - 1), i \in 0..(h - 1),
                    j \in 0..(w - 1), o \in 0..(m_self.out_dim - 1) :
                    MergedFrom(b, i, j, o) =
                        IF m_self.training THEN all
                        ELSE Block2x2(i, j, m_HW[2])
              /\ \A c \in 1..m_self.dim :
                    m_self.norm_running[c] =
                        IF m_self.training THEN all ELSE {}

\* A merge, in evaluation mode, of a 4x4 grid of two-channel tokens into a
\* 2x2 grid.
C8_Witness ==
    /\ m_pc = "called"
    /\ MergeValidInput
    /\ ~m_self.training
    /\ m_HW = <<4, 4>>
    /\ m_x.shape = <<2, 16, 2>>
    /\ Ok(m_down)
    /\ m_down.shape = <<2, 4, m_self.out_dim>>
    /\ m_down.data[Len(m_down.data)] = {10, 11, 14, 15}

\* C8 as stated: whatever the mode of the layer, output token (i, j) is
\* computed only from the 2x2 input block at rows 2i..2i+1, columns
\* 2j..2j+1.
C8_AsStated ==
    /\ MergeShapes
    /\ (m_pc = "called" /\ MergeValidInput) =>
          \A b \in 0..(m_x.shape[1] - 1), i \in 0..((m_HW[1] \div 2) - 1),
             j \in 0..((m_HW[2] \div 2) - 1), o \in 0..(m_self.out_dim - 1) :
             MergedFrom(b, i, j, o) \subseteq Block2x2(i, j, m_HW[2])

\* A merge in training mode of a 4x4 grid: the last output token is
\* computed from all 16 input tokens.
C8_TrainingMode ==
    /\ m_pc = "called"
    /\ MergeValidInput
    /\ m_self.training
    /\ m_HW = <<4, 4>>
    /\ m_down.data[Len(m_down.data)] = 0..15
    /\ m_self.norm_running[1] = 0..15

\* C9: on (B, H*W, dim) tokens with (H, W) the layer's input_resolution
\* and dim even, PatchExpand.forward returns (B, (2H)*(2W), dim/2); on a
\* token count other than H*W it raises 'input feature has wrong size'.
C9_PatchExpandShape ==
    e_pc = "called" =>
       LET H == e_self.input_resolution[1]
           W == e_self.input_resolution[2]
       IN  /\ (e_x.shape[2] = H * W /\ e_self.dim % 2 = 0) =>
                 /\ Ok(e_out)
                 /\ e_out.shape =
                       <<e_x.shape[1], (2 * H) * (2 * W), e_self.dim \div 2>>
                 /\ 4 * e_out.shape[3] = 2 * e_self.dim
                 /\ e_out.shape[2] = 4 * e_x.shape[2]
           /\ e_x.shape[2] # H * W =>
                 e_out.err = "AssertionError: input feature has wrong size"

\* An expansion of a 2x3 grid of four-channel tokens.
C9_Witness ==
    /\ e_pc = "called"
    /\ e_self = [input_resolution |-> <<2, 3>>, dim |-> 4]
    /\ e_x.shape = <<2, 6, 4>>
    /\ e_out.err = ""
    /\ e_out.shape = <<2, 24, 2>>

\* The rates stage i (1-based) of the encoder is due: the contiguous slice
\* of depths[i] rates that starts after the blocks of the earlier stages.
StageRates(i) ==
    [k \in 1..n_args.depths[i] |-> n_self.dpr[SumTo(n_args.depths, i - 1) + k]]

\* What C10 says of the schedule, the last rate being required to be
\* drop_path_rate once there are at least minBlocks blocks.
DropPathSchedule(minBlocks) ==
    n_pc \in {"layers", "layers_up", "built"} =>
       LET dpr == n_self.dpr
           total == SumSeq(n_args.depths)
           N == n_self.num_layers
       IN  /\ Len(dpr) = total
           /\ \A k \in 1..(total - 1) : RateLeq(dpr[k], dpr[k + 1])
           /\ total >= 1 => RateEq(dpr[1], Rate(0, 1))
           /\ total >= minBlocks =>
                 RateEq(dpr[total], Rate(n_args.drop_path_rate, 1))
           /\ \A i \in 1..Len(n_self.layers) :
                 /\ n_self.layers[i].depth = n_args.depths[i]
                 /\ n_self.layers[i].drop_path = StageRates(i)
           /\ \A i \in 1..Len(n_self.layers_up) :
                 n_self.layers_up[i].kind = "BasicLayer_up" =>
                    /\ n_self.layers_up[i].depth = n_args.depths[N - i + 1]
                    /\ n_self.layers_up[i].drop_path
                          = n_self.layers[N - i + 1].drop_path

\* C10 (amended): the per-block rates are a linear interpolation from 0
\* over sum(depths) blocks: they are non-decreasing in encoder block
\* order, the first is 0, the last is drop_path_rate when
\* sum(depths) >= 2, encoder stage i receives the contiguous slice
\* [sum(depths[:i]), sum(depths[:i+1])) of exactly depths[i] rates, and
\* each decoder stage that has blocks receives the slice of the encoder
\* stage it mirrors.
C10_DropPathSchedule == DropPathSchedule(2)

\* A built 4-stage instance with blocks in every stage and a positive
\* drop_path_rate, whose last decoder stage holds the rates of encoder
\* stage 1.
C10_Witness ==
    /\ n_pc = "built"
    /\ n_args.depths = <<2, 1, 2, 1>>
    /\ n_args.drop_path_rate = 10
    /\ n_self.dpr[6] = Rate(50, 5)
    /\ n_self.layers[3].drop_path = <<Rate(30, 5), Rate(40, 5)>>
    /\ n_self.layers_up[3].drop_path = n_self.layers[2].drop_path
    /\ n_self.layers_up[3].drop_path = <<Rate(20, 5)>>

\* C10 as stated: the last rate is drop_path_rate whenever there is a
\* block at all.  An instance with a single block has the single rate 0.
C10_AsStated == DropPathSchedule(1)

\* The finished calls, as pairs of a thread and the call's position
Calls == {<<t, k>> \in Threads \X (1..MaxCalls) : k <= Len(n_done[t])}

Done(c) == n_done[c[1]][c[2]]

\* C2 as stated: for a 4-stage MixUnet and every subset of {0,1,2,3} as
\* out_indices, forward returns exactly len(out_indices) feature maps, as
\* many as out_shape has entries.  forward returns num_layers - 1 maps
\* whatever out_indices is.
C2_OneMapPerOutIndex ==
    \A c \in Calls :
        Done(c).err = "" =>
           /\ Len(Done(c).outs) = Len(n_self.out_indices)
           /\ Len(Done(c).outs) = Len(out_shape(n_self))

\* The outcome of a forward call that runs alone on the instances of
\* ForwardArgs: the shapes of the maps it returns, or its exception.
OutcomeAlone(image) ==
    IF image = <<32, 32>>
    THEN [err |-> "",
          shapes |-> <<<<1, 48, 4, 4>>, <<1, 96, 2, 2>>, <<1, 192, 1, 1>>>>]
    ELSE IF image = <<28, 28>>
    THEN [err |-> "AssertionError: x size are not even", shapes |-> <<>>]
    ELSE [err |-> "AssertionError: input feature has wrong size",
          shapes |-> <<>>]

Outcome(call) ==
    [err |-> call.err,
     shapes |-> [k \in 1..Len(call.outs) |-> call.outs[k].shape]]

\* C3: for a 4-stage MixUnet with out_indices (1, 2, 3) and a square input
\* equal to img_size, the returned tuple is ordered shallowest-first: entry
\* k (k = 0, 1, 2) is the pre-upsample output of decoder stage 2-k, has
\* embed_dim[k+1] channels and spatial size input/2^(k+3), and so agrees
\* with entry k of out_shape (channels embed_dim[k+1], stride 8, 16, 32).
C3_ShallowestFirst ==
    \A c \in Calls :
        /\ n_self.out_indices = <<1, 2, 3>>
        /\ Done(c).image = to_2tuple(n_args.img_size)
        /\ Done(c).image[1] = Done(c).image[2]
        => /\ Done(c).err = ""
           /\ Len(Done(c).outs) = 3
           /\ Len(out_shape(n_self)) = 3
           /\ \A k \in 0..2 :
                 LET out == Done(c).outs[k + 1]
                     size == Done(c).image[1] \div Pow2(k + 3)
                     declared == out_shape(n_self)[k + 1]
                 IN  /\ out = Done(c).x_list[(2 - k) + 1]
                     /\ out.shape = <<1, n_self.embed_dim[k + 2], size, size>>
                     /\ declared.channels = n_self.embed_dim[k + 2]
                     /\ declared.stride = Pow2(k + 3)
                     /\ out.shape[2] = declared.channels
                     /\ out.shape[3] * declared.stride = Done(c).image[1]

\* A finished call on a 32 x 32 image, the instance built for 32 x 32 with
\* out_indices (1, 2, 3): the maps have 48, 96 and 192 channels.
C3_Witness ==
    \E c \in Calls :
        /\ n_self.out_indices = <<1, 2, 3>>
        /\ n_self.embed_dim = <<24, 48, 96, 192>>
        /\ Done(c).image = <<32, 32>>
        /\ Done(c).err = ""
        /\ Outcome(Done(c)).shapes
              = <<<<1, 48, 4, 4>>, <<1, 96, 2, 2>>, <<1, 192, 1, 1>>>>

\* Every block attribute a running call has read is the value the call
\* itself assigned: the H and W its BasicLayer was entered with.
ReadsOwnHW ==
    \A t \in Threads :
        /\ n_call[t].selfH # <<>> => n_call[t].selfH = <<n_call[t].H>>
        /\ n_call[t].selfW # <<>> => n_call[t].selfW = <<n_call[t].W>>

\* C6: with the stochastic components inactive, forward calls made one
\* after the other on identical input return identical outputs, and the
\* result of a call does not depend on what an earlier call left behind:
\* every call has the outcome of a call that runs alone, the H and W on
\* each MixingBlock being overwritten before they are read.
C6_SequentialCallsIndependent ==
    /\ ReadsOwnHW
    /\ \A c \in Calls : Outcome(Done(c)) = OutcomeAlone(Done(c).image)
    /\ \A c, d \in Calls :
          Done(c).image = Done(d).image =>
             /\ Done(c).outs = Done(d).outs
             /\ Done(c).err = Done(d).err

\* A call on a 28 x 28 image has left H = W = 7 on the blocks of the first
\* stage and failed; the next call, on a 32 x 32 image, has read 8 from the
\* same blocks and returned its maps.
C6_Witness ==
    /\ Len(n_done[1]) = 2
    /\ n_done[1][1].image = <<28, 28>>
    /\ n_done[1][1].err # ""
    /\ n_done[1][2].image = <<32, 32>>
    /\ n_done[1][2].err = ""
    /\ n_blk[<<"layers", 0, 0>>] = [H |-> <<8>>, W |-> <<8>>]

\* C4 as stated: any interleaving of two concurrent forward calls on the
\* same instance gives each call the outcome it has alone; every
\* MixingBlock.forward reads the H and W its own call assigned, and the
\* assertion L == H*W never fails because of the other call.  The H and W
\* attributes of a block are shared by the calls.
C4_ConcurrentCallsIndependent ==
    /\ ReadsOwnHW
    /\ \A c \in Calls : Outcome(Done(c)) = OutcomeAlone(Done(c).image)


(***************************************************************************)
(* ConvEmbed.forward: the stem with and without a norm layer.              *)
(***************************************************************************)
\* The size to which ConvEmbed.forward pads a side n for patch size p
PaddedSide(n, p) == IF n % p # 0 THEN n + (p - (n % p)) ELSE n

\* The map (B, embed_dim, Hp/patch, Wp/patch) of the padded image s_x
EmbeddedShape ==
    <<s_x.shape[1], s_self.embed_dim,
      PaddedSide(s_x.shape[3], s_self.patch_size[1]) \div s_self.patch_size[1],
      PaddedSide(s_x.shape[4], s_self.patch_size[2]) \div s_self.patch_size[2]>>

\* C11: with the default patch size 4, whether or not a norm layer is
\* configured, ConvEmbed.forward completes without error and returns the
\* embedded map of shape (B, embed_dim, Hp/patch, Wp/patch) of the padded
\* image.
C11_NormOptional ==
    (s_pc = "called" /\ s_args.patch_size = 4) =>
        /\ Ok(s_out)
        /\ s_out.shape = EmbeddedShape

\* With a norm layer configured the call does return that map.
C11_WithNorm ==
    (s_pc = "called" /\ s_args.patch_size = 4 /\ s_args.norm_layer) =>
        /\ Ok(s_out)
        /\ s_out.shape = EmbeddedShape



(***************************************************************************)
(* PatchExpand.forward: where the expanded channels of a token go.         *)
(***************************************************************************)
\* Output channel c of the token at (2h+p1, 2w+p2) is expanded channel
\* (2*p1+p2)*(C/4)+c of input token (h, w), for the tokens of the H x W
\* grids in Grids.
ChannelToSpace(Grids) ==
    (e_pc = "called" /\ Ok(e_out) /\ e_self.input_resolution \in Grids) =>
        LET H == e_self.input_resolution[1]
            W == e_self.input_resolution[2]
            C == 2 * e_self.dim
        IN  \A b \in 0..(e_x.shape[1] - 1), h \in 0..(H - 1),
               w \in 0..(W - 1), p1 \in 0..1, p2 \in 0..1,
               c \in 0..((C \div 4) - 1) :
               e_out.data[Ravel(<<b, (2 * h + p1) * (2 * W) + (2 * w + p2),
                                  c>>, e_out.shape) + 1]
                  = [src |-> {h * W + w},
                     ch |-> (2 * p1 + p2) * (C \div 4) + c]

\* C12: PatchExpand performs a 2x2 channel-to-space rearrangement, for
\* every H x W grid: output channel c of the token at (2h+p1, 2w+p2) equals
\* expanded channel (2*p1+p2)*(C/4)+c of input token (h, w).
C12_ChannelToSpace == ChannelToSpace((1..MaxH) \X (1..MaxH))

\* On grids one token wide the two reshapes do put the channels there.
C12_OneColumn == ChannelToSpace((1..MaxH) \X {1})



(***************************************************************************)
(* MixingBlock.forward: padding to the window size, and the shift.         *)
(***************************************************************************)
\* The block was called on tokens of the H x W grid stored in it.
BlockRan ==
    /\ b_pc = "called"
    /\ b_x.shape[2] = b_self.H[1] * b_self.W[1]

\* C13: in MixingBlock.forward the padding is applied only on the trailing
\* edges, with pad_b = (ws - H % ws) % ws and pad_r = (ws - W % ws) % ws,
\* so 0 <= pad < ws and the padded Hp and Wp are multiples of ws at the
\* window partition; the map is cropped back when it was padded, and the
\* output has the shape (B, H*W, C) of the input.
C13_TrailingPadding ==
    BlockRan =>
        LET ws == b_self.window_size
            H == b_self.H[1]
            W == b_self.W[1]
            pad_b == b_trace.pad[4]
            pad_r == b_trace.pad[6]
        IN  /\ b_trace.pad = <<0, 0, 0, (ws - (H % ws)) % ws,
                               0, (ws - (W % ws)) % ws, 0, 0>>
            /\ pad_b \in 0..(ws - 1)
            /\ pad_r \in 0..(ws - 1)
            /\ b_trace.Hp = H + pad_b
            /\ b_trace.Wp = W + pad_r
            /\ b_trace.Hp % ws = 0
            /\ b_trace.Wp % ws = 0
            /\ b_trace.cropped <=> (b_trace.Hp # H \/ b_trace.Wp # W)
            /\ Ok(b_out)
            /\ b_out.shape = <<b_x.shape[1], H * W, b_x.shape[3]>>

\* A 4 x 2 grid with windows of 3 was padded to 6 x 3 and cropped back.
C13_Witness ==
    /\ BlockRan
    /\ b_self.window_size = 3
    /\ b_self.H = <<4>>
    /\ b_self.W = <<2>>
    /\ b_trace.pad = <<0, 0, 0, 2, 0, 1, 0, 0>>
    /\ b_trace.Hp = 6
    /\ b_trace.Wp = 3
    /\ b_trace.cropped
    /\ b_out.shape = <<2, 8, 16>>



\* C14: constructing a MixingBlock with a non-zero shift_size raises an
\* assertion error, so in every MixingBlock.forward call the map is not
\* rolled and MixingAttention is invoked with mask None, whatever
\* mask_matrix the caller passes.
C14_NoShift ==
    /\ (b_pc \notin {"idle", "new"} /\ b_args.shift_size # 0) =>
          /\ b_pc = "raised"
          /\ b_self.err = "AssertionError: No shift in MixUnet"
    /\ BlockRan =>
          /\ b_self.shift_size = 0
          /\ ~b_trace.rolled
          /\ b_trace.attn_mask = None

\* A block asked for with shift_size 1 was not built.
C14_Witness ==
    /\ b_pc = "raised"
    /\ b_args.shift_size = 1
    /\ b_self.err = "AssertionError: No shift in MixUnet"

\* A block was called with a mask_matrix and ran its attention without it.
C14_MaskDropped ==
    /\ BlockRan
    /\ b_mask # None
    /\ b_trace.attn_mask = None
    /\ Ok(b_out)



(***************************************************************************)
(* MixUnet.forward: the skip tensors.                                      *)
(***************************************************************************)
\* The value encoder stage i is called on
StageInput(i) ==
    IF i = 0 THEN Value("", 0, "patch_embed", 0)
    ELSE Value("layers", i - 1, "downsample", 0)

\* The value the MixingBlock stack of encoder stage i returns
StageBlocksOutput(i) ==
    IF n_self.layers[i + 1].depth = 0 THEN StageInput(i)
    ELSE Value("layers", i, "blk", n_self.layers[i + 1].depth - 1)

\* In every running call one skip is recorded per encoder stage entered,
\* in stage order, all N of them once the encoder pass is over; skip i is
\* the value entry(i) and has the width of stage i.
SkipsRecorded(entry(_)) ==
    \A t \in Threads :
        LET f == n_call[t]
        IN  f.pc # "idle" =>
               /\ Len(f.x_downsample) = Len(f.skips)
               /\ Len(f.skips) <= n_self.num_layers
               /\ (f.phase = "layers" /\ f.pc = "layers") =>
                     Len(f.skips) = f.i
               /\ f.phase = "layers_up" => Len(f.skips) = n_self.num_layers
               /\ \A i \in 0..(Len(f.skips) - 1) :
                     /\ f.skips[i + 1] = entry(i)
                     /\ f.x_downsample[i + 1].shape[3]
                           = n_self.embed_dim[i + 1]

\* What forward_features records: exactly N skip tensors, one per encoder
\* stage in stage order, entry i being the input of encoder stage i (the
\* embedded patches for i = 0, else the downsampled output of stage i-1),
\* appended before the MixingBlock stack of stage i runs.
C15_SkipsAreStageInputs == SkipsRecorded(StageInput)

\* The encoder pass of a 4-stage instance is over and has recorded the
\* embedded patches and the three downsampled outputs.
C15_StageInputsRecorded ==
    \E t \in Threads :
        /\ n_call[t].phase = "layers_up"
        /\ n_call[t].skips = <<StageInput(0), StageInput(1), StageInput(2),
                               StageInput(3)>>
        /\ n_call[t].x_downsample[2].shape = <<1, 16, 48>>

\* C15: during the encoder pass of an N-stage MixUnet exactly N skip
\* tensors are recorded, one per encoder stage in stage order, and skip
\* entry i is the output of encoder stage i, the result of that stage's
\* MixingBlock stack, taken before that stage's downsampling.
C15_AsStated == SkipsRecorded(StageBlocksOutput)



\* C16: in a 4-stage MixUnet (embed_dim an int) decoder stage inx >= 1
\* concatenates skip entry 3 - inx, the skips being consumed in reverse
\* stage order; that entry has the token count and the channel width of
\* the upsampled tensor coming from decoder stage inx-1, so the
\* concatenation has twice the stage's working width, which
\* concat_back_dim[inx] maps back to the width of the stage's blocks, and
\* no call fails at the concatenation.
C16_SkipsConsumedInReverse ==
    /\ \A t \in Threads :
          LET f == n_call[t]
              inx == f.i
          IN  (/\ n_self.num_layers = 4
               /\ f.pc = "layers_up"
               /\ inx \in 1..(Len(n_self.layers_up) - 1)) =>
                 LET skip == f.x_downsample[SkipIndex(inx) + 1]
                     layer_up == n_self.layers_up[inx + 1]
                     concat_linear == n_self.concat_back_dim[inx + 1]
                 IN  /\ SkipIndex(inx) = n_self.num_layers - 1 - inx
                     /\ f.skips[SkipIndex(inx) + 1] = StageInput(3 - inx)
                     /\ f.x_is = Value("layers_up", inx - 1, "upsample", 0)
                     /\ skip.shape[2] = f.x.shape[2]
                     /\ skip.shape[3] = f.x.shape[3]
                     /\ f.x.shape[3] = layer_up.dim
                     /\ ~concat_linear.identity
                     /\ concat_linear.in_features = 2 * layer_up.dim
                     /\ concat_linear.out_features = layer_up.dim
    /\ \A t \in Threads :
          LET f == n_call[t]
          IN  f.x_is.op = "concat_back_dim" =>
                 f.x.shape = <<1, f.x_downsample[4 - f.i].shape[2],
                               n_self.layers_up[f.i + 1].dim>>
    /\ \A c \in Calls :
          ~(Done(c).err # "" /\ Done(c).at = "layers_up" /\ Done(c).i >= 1)

\* Decoder stage 2 has been entered on the 48-wide reduction of the
\* upsampled tensor and skip 1, 16 tokens each.
C16_Witness ==
    \E t \in Threads :
        /\ n_call[t].x_is = Value("layers_up", 2, "concat_back_dim", 0)
        /\ n_call[t].x.shape = <<1, 16, 48>>
        /\ n_call[t].x_downsample[2].shape = <<1, 16, 48>>
        /\ n_self.concat_back_dim[3].in_features = 96



(***************************************************************************)
(* MixUnet.__init__: the decoder against the encoder.                      *)
(***************************************************************************)
\* Decoder stage i (0-based) of the built instance has the width of encoder
\* stage N-1-i, and for i >= 1 its depth and head count and a reduction
\* from twice that width to that width.
DecoderStageMirrors(i) ==
    LET N == n_self.num_layers
        width == n_self.embed_dim[N - i]
        layer_up == n_self.layers_up[i + 1]
        concat_linear == n_self.concat_back_dim[i + 1]
    IN  /\ layer_up.dim = width
        /\ i >= 1 =>
              /\ layer_up.depth = n_args.depths[N - i]
              /\ layer_up.num_heads = n_args.num_heads[N - i]
              /\ ~concat_linear.identity
              /\ concat_linear.in_features = 2 * width
              /\ concat_linear.out_features = width

\* C17: for every configuration the constructor accepts (embed_dim an int
\* or a list of N widths) decoder stage i (0 <= i < N-1) has the working
\* width embed_dim[N-1-i] of the encoder stage it mirrors, and for i >= 1
\* its depth, its head count and a concat reduction from 2*embed_dim[N-1-i]
\* to embed_dim[N-1-i].
C17_DecoderMirrorsEncoder ==
    n_pc = "built" =>
        \A i \in 0..(n_self.num_layers - 2) : DecoderStageMirrors(i)

\* With embed_dim given as an int the decoder does mirror the encoder.
C17_IntEmbedDim ==
    (n_pc = "built" /\ n_args.embed_dim.kind = "int") =>
        \A i \in 0..(n_self.num_layers - 2) : DecoderStageMirrors(i)



(***************************************************************************)
(* MixUnet.forward: the size of the returned maps.                         *)
(***************************************************************************)
\* C18: every feature map returned by MixUnet.forward has (height, width)
\* equal to the (Wh, Ww) token grid that its decoder stage processed, for
\* every input on which forward completes, square or not.
C18_MapsHaveStageGrid ==
    \A c \in Calls :
        LET call == Done(c)
            n == Len(call.outs)
        IN  call.err = "" =>
               \A k \in 1..n :
                  <<call.outs[k].shape[3], call.outs[k].shape[4]>>
                      = call.grids[n + 1 - k]

\* On square images the maps do have the grid of their stage.
C18_Square ==
    \A c \in Calls :
        LET call == Done(c)
            n == Len(call.outs)
        IN  (call.err = "" /\ call.image[1] = call.image[2]) =>
               /\ n = 3
               /\ \A k \in 1..n :
                     <<call.outs[k].shape[3], call.outs[k].shape[4]>>
                         = call.grids[n + 1 - k]



(***************************************************************************)
(* MixUnet.forward: the decoder's token counts are those of img_size.      *)
(***************************************************************************)
\* The token count the first decoder stage was built for: patches_resolution
\* halved num_layers - 1 times, height times width
DecoderTokens ==
    LET d == Pow2(n_self.num_layers - 1)
    IN  (n_self.patches_resolution[1] \div d)
            * (n_self.patches_resolution[2] \div d)

\* C19: when the final encoder output of a forward call has a token count
\* other than (patches_resolution[0] // 2^(N-1)) *
\* (patches_resolution[1] // 2^(N-1)), the call raises 'input feature has
\* wrong size' in the first decoder stage, the bare PatchExpand, and returns
\* no feature maps.
C19_DecoderTokensFixed ==
    \A c \in Calls :
        LET call == Done(c)
        IN  (call.encoded # <<>> /\ call.encoded[2] # DecoderTokens) =>
               /\ call.err = "AssertionError: input feature has wrong size"
               /\ call.at = "layers_up"
               /\ call.phase = "layers_up"
               /\ call.i = 0
               /\ call.outs = <<>>
               /\ call.x_list = <<>>

\* A call on a 32 x 128 image on the instance built for 32 x 32 has ended
\* in the first decoder stage: 4 tokens against the 1 the stage was built
\* for.
C19_Witness ==
    \E c \in Calls :
        /\ n_self.patches_resolution = <<8, 8>>
        /\ Done(c).image = <<32, 128>>
        /\ Done(c).encoded = <<1, 4, 192>>
        /\ DecoderTokens = 1
        /\ Done(c).err = "AssertionError: input feature has wrong size"
        /\ Done(c).at = "layers_up"
        /\ Done(c).i = 0

\* A call whose final encoder output has the token count of the instance
\* does not end in that assertion.
C19_MatchingTokens ==
    \A c \in Calls :
        LET call == Done(c)
        IN  (call.encoded # <<>> /\ call.encoded[2] = DecoderTokens) =>
               call.err # "AssertionError: input feature has wrong size"



(***************************************************************************)
(* ConvEmbed: the grid of the stem against patches_resolution.             *)
(***************************************************************************)
\* ConvEmbed.forward has been called, with a norm layer, on an image of the
\* layer's img_size, which its patch size divides.
StemOnOwnSize ==
    /\ s_pc = "called"
    /\ s_args.norm_layer
    /\ <<s_x.shape[3], s_x.shape[4]>> = s_self.img_size
    /\ s_self.img_size[1] % s_self.patch_size[1] = 0
    /\ s_self.img_size[2] % s_self.patch_size[2] = 0

\* C20: for every even patch_size the stem downsamples by exactly
\* patch_size: on an image of size img_size divisible by patch_size,
\* ConvEmbed.forward returns a map whose grid is patches_resolution.
C20_StemGridIsPatchesResolution ==
    StemOnOwnSize =>
        /\ Ok(s_out)
        /\ <<s_out.shape[3], s_out.shape[4]>> = s_self.patches_resolution

\* With patch_size 4 the grid is patches_resolution.
C20_PatchFour ==
    (StemOnOwnSize /\ s_args.patch_size = 4) =>
        /\ Ok(s_out)
        /\ <<s_out.shape[3], s_out.shape[4]>> = s_self.patches_resolution

\* With every other even patch_size up to MaxPatch some side of the grid is
\* not the side of patches_resolution.
C20_OtherPatchSizes ==
    (StemOnOwnSize /\ s_args.patch_size # 4) =>
        \/ ~Ok(s_out)
        \/ <<s_out.shape[3], s_out.shape[4]>> # s_self.patches_resolution



(***************************************************************************)
(* MixingAttention: the relative-position index and the offsets.           *)
(***************************************************************************)
\* The row and the column of position p of a window with Ww columns, in the
\* order in which the window's tokens are flattened
WindowRow(p, Ww) == p \div Ww

WindowCol(p, Ww) == p % Ww

\* relative_position_index[p][q] of the layer that has been built
IndexAt(p, q) == a_index.data[p * a_index.shape[2] + q + 1]

\* C21: relative_position_index[p][q] is
\* (dh + Wh - 1) * (2*Ww - 1) + (dw + Ww - 1) for the row offset dh and the
\* column offset dw of (p, q); two pairs of positions have the same index
\* if and only if they have the same offsets; and the indices of the
\* (2*Wh-1)*(2*Ww-1) offsets are exactly the rows of the bias table.
C21_IndexSeparatesOffsets ==
    a_pc \in {"built", "called"} =>
        LET Wh == a_window[1]
            Ww == a_window[2]
            P == 0..(Wh * Ww - 1)
            dh(p, q) == WindowRow(p, Ww) - WindowRow(q, Ww)
            dw(p, q) == WindowCol(p, Ww) - WindowCol(q, Ww)
            \* every pair of positions, as its index and its offsets
            Indexed == {[index |-> IndexAt(p, q), dh |-> dh(p, q),
                         dw |-> dw(p, q)] : p \in P, q \in P}
        IN  /\ a_index.shape = <<Wh * Ww, Wh * Ww>>
            /\ \A p \in P, q \in P :
                  IndexAt(p, q) = (dh(p, q) + Wh - 1) * (2 * Ww - 1)
                                      + (dw(p, q) + Ww - 1)
            /\ \A a \in Indexed, b \in Indexed :
                  (a.index = b.index) <=> (a.dh = b.dh /\ a.dw = b.dw)
            /\ {<<dh(p, q), dw(p, q)>> : p \in P, q \in P}
                  = ((1 - Wh)..(Wh - 1)) \X ((1 - Ww)..(Ww - 1))
            /\ {IndexAt(p, q) : p \in P, q \in P}
                  = 0..(a_table.shape[1] - 1)
            /\ a_table.shape[1] = (2 * Wh - 1) * (2 * Ww - 1)

\* The index of a 2 x 3 window has been built: positions (0, 1) and (3, 4)
\* have the same offsets (0, -1) and the same index, 6; positions (0, 4)
\* and (1, 3) have the offsets (-1, -1) and (-1, 1), with the indices 1
\* and 3.
C21_Witness ==
    /\ a_pc \in {"built", "called"}
    /\ a_window = <<2, 3>>
    /\ IndexAt(0, 1) = 6
    /\ IndexAt(3, 4) = 6
    /\ IndexAt(0, 4) = 1
    /\ IndexAt(1, 3) = 3


=============================================================================
